---- MODULE Spec2Model ----
(***************************************************************************)
(* A model of the lv C++ binding layer (include/lv): the ownership         *)
(* wrappers ObjectView / Object of core/object.hpp and the deferred draw   *)
(* facade (Layer, draw descriptors, draw::<primitive>, Canvas init_layer / *)
(* finish_layer, DrawTaskView).  The wrapped engine is represented by the  *)
(* objects it holds and by the calls the wrappers forward to it.           *)
(***************************************************************************)
EXTENDS Integers, Sequences, FiniteSets, TLC

\* ------------------------------------------------------------------ bounds
MaxWidgets == 3     \* widgets the engine creates in one run
MaxAddr    == 2     \* addresses the engine's allocator hands out
MaxHandles == 3     \* owning Object handles constructed in one run
MaxViews   == 2     \* ObjectView values constructed in one run
MaxDsc     == 1     \* draw descriptors the caller constructs in one run
MaxTasks   == 2     \* draw:: calls made on the layer between two init_layer calls
MaxVal     == 1     \* descriptor field values are 0..MaxVal
MaxStyles  == 2     \* Style objects constructed in one run
MaxRecs    == 2     \* property records the engine allocates in one run
MaxDrawBufs == 3    \* DrawBuf objects constructed in one run
MaxBufs    == 2     \* draw buffers allocated in one run

Widgets == 1..MaxWidgets
Addrs   == 1..MaxAddr
Handles == 1..MaxHandles
Views   == 1..MaxViews
Dscs    == 1..MaxDsc
Vals    == 0..MaxVal
Styles  == 1..MaxStyles
Recs    == 1..MaxRecs
DrawBufs == 1..MaxDrawBufs
Bufs    == 1..MaxBufs

\* A pointer lv_obj_t*: the address a, and the widget w it was obtained for.
\* The code and the engine only ever look at the address; w is kept to tell a
\* pointer that still designates its widget from a stale one.
NULL == [a |-> 0, w |-> 0]
Ptr(a, w) == [a |-> a, w |-> w]

VARIABLES
    obj,        \* engine: widget id -> [st, parent, ud]
    at,         \* engine allocator: address -> widget that last occupied it (0: never used)
    delCalls,   \* widget id -> number of lv_obj_delete calls that reached it
    fault,      \* "none", "stale" (a stale pointer was handed to the engine), "null"
    hnd,        \* Object handles: index -> [st, m_obj]
    view,       \* ObjectView values: index -> [st, m_obj, ndel (del() calls so far)]
    released,   \* handle -> widgets whose pointer its release() handed back
    op,         \* the operation performed last, with what it saw and returned
    calls,      \* the engine calls the last operation forwarded, in order
    dsc,        \* draw descriptors held by the caller: index -> [st, kind, val]
    lstate,     \* the layer's place in its life cycle, as the engine sees it
    pending,    \* the tasks queued on the layer, oldest first
    dispatched, \* the tasks the dispatcher consumed since the layer was initialised
    given,      \* what the draw:: calls since init_layer were given, in call order
    areaOut,    \* the caller's lv_area_t that DrawTaskView::get_area fills
    layer,      \* the Layer's lv_layer_t m_layer: [buf_area, clip_area, opa, user_data, all_tasks_added, recolor]
    style,      \* Style objects: index -> [st, rec (the property record m_style points to, 0: none)]
    srec,       \* engine heap: property record -> [st, props, frees (times it was freed)]
    dbuf,       \* DrawBuf objects: index -> [st, m_buf (the buffer it points to, 0: null)]
    ebuf,       \* engine heap: draw buffer -> [st, by (who created it), destroys (lv_draw_buf_destroy calls on it)]
    ui          \* engine: widget id -> [st, cls, parent, text, states, flags, styles] of the widget tree

objVars == <<obj, at, delCalls, fault, hnd, view, released>>
drawVars == <<dsc, lstate, pending, dispatched, given, areaOut>>
\* the state of the wrappers other than ObjectView / Object and the draw calls
libVars == <<layer, style, srec, dbuf, ebuf, ui>>
vars == <<obj, at, delCalls, fault, hnd, view, released, op, calls,
          dsc, lstate, pending, dispatched, given, areaOut, layer, style, srec, dbuf, ebuf, ui>>

NoOp == [name |-> "init", self |-> 0, other |-> 0, pre |-> NULL, opre |-> NULL, ret |-> NULL]
Op(n, s, o, pre, opre, ret) ==
    [name |-> n, self |-> s, other |-> o, pre |-> pre, opre |-> opre, ret |-> ret]
Call(f, p) == [fn |-> f, arg |-> p]

InitObj ==
    /\ obj = [w \in Widgets |-> [st |-> "none", parent |-> 0, ud |-> 0]]
    /\ at = [a \in Addrs |-> 0]
    /\ delCalls = [w \in Widgets |-> 0]
    /\ fault = "none"
    /\ hnd = [h \in Handles |-> [st |-> "none", m_obj |-> NULL]]
    /\ view = [v \in Views |-> [st |-> "none", m_obj |-> NULL, ndel |-> 0]]
    /\ released = [h \in Handles |-> {}]
    /\ op = NoOp
    /\ calls = <<>>

\* area(x1, y1, x2, y2) of primitives.hpp
area(x1, y1, x2, y2) == [x1 |-> x1, y1 |-> y1, x2 |-> x2, y2 |-> y2]
Areas == {area(0, 0, 9, 9)}
\* the area of a primitive whose geometry is in its descriptor (line, arc, triangle)
NoArea == area(0, 0, 0, 0)

\* lv_layer_t m_layer{} followed by lv_layer_init(&m_layer): every field zero,
\* opacity LV_OPA_COVER (1 here; 0 stands for any other opacity)
lv_layer_init ==
    [buf_area |-> NoArea, clip_area |-> NoArea, opa |-> 1, user_data |-> 0,
     all_tasks_added |-> FALSE, recolor |-> 0]

\* the canvas' own area, (0, 0) to (width - 1, height - 1)
CanvasArea == area(0, 0, 9, 9)

\* engine, lv_canvas_init_layer: the layer is initialised anew and both of its
\* areas become the canvas' area
lv_canvas_init_layer_areas ==
    [lv_layer_init EXCEPT !.buf_area = CanvasArea, !.clip_area = CanvasArea]

InitLayer == layer = lv_layer_init

\* the properties a style can carry, and a record in which none is set
PropNames == {"bg_color", "radius"}
Unset == 2
NoProps == [p \in PropNames |-> Unset]

InitStyle ==
    /\ style = [i \in Styles |-> [st |-> "none", rec |-> 0]]
    /\ srec = [r \in Recs |-> [st |-> "none", props |-> NoProps, frees |-> 0]]

InitBuf ==
    /\ dbuf = [i \in DrawBufs |-> [st |-> "none", m_buf |-> 0]]
    /\ ebuf = [b \in Bufs |-> [st |-> "none", by |-> "none", destroys |-> 0]]

\* the layer is constructed (Layer() calls lv_layer_init) and not yet bound to
\* a canvas; no descriptor exists yet
InitDraw ==
    /\ dsc = [d \in Dscs |-> [st |-> "none", kind |-> "none", val |-> 0]]
    /\ lstate = "uninitialized"
    /\ pending = <<>>
    /\ dispatched = <<>>
    /\ given = <<>>
    /\ areaOut = NoArea

\* the states and flags of a widget this model follows, and the texts a label shows
StateBits == {"CHECKED", "DISABLED"}
ObjFlags == {"SCROLLABLE", "CLICKABLE"}
Texts == {"a", "b"}
\* a widget that is not a label has no text
NoText == "-"
NoWidget == [st |-> "none", cls |-> "none", parent |-> 0, text |-> NoText,
             states |-> {}, flags |-> {}, styles |-> {}]

\* no widget exists yet; the screen (0) is the engine's and is not followed
InitUi == ui = [w \in Widgets |-> NoWidget]

Init == InitObj /\ InitDraw /\ InitLayer /\ InitStyle /\ InitBuf /\ InitUi

\* ------------------------------------------------------------------ engine
Valid(w) == IF w = 0 THEN FALSE ELSE obj[w].st = "valid"
\* the pointer still designates the widget it was obtained for
Fresh(p) == IF p.a = 0 THEN FALSE ELSE at[p.a] = p.w /\ Valid(p.w)
Stale(p) == p.a # 0 /\ ~Fresh(p)
\* the widget an address designates for the engine, whoever holds the pointer
Target(p) == at[p.a]
FreeAddr(a) == IF at[a] = 0 THEN TRUE ELSE obj[at[a]].st = "deleted"
Unused(w) == obj[w].st = "none"
LivePtrs == {Ptr(a, at[a]) : a \in {x \in Addrs : Valid(at[x])}}

\* x is w or one of its descendants (a parent is always created before its child)
RECURSIVE IsDesc(_, _)
IsDesc(x, w) ==
    IF x = w THEN TRUE
    ELSE IF obj[x].parent = 0 THEN FALSE
    ELSE IsDesc(obj[x].parent, w)

\* lv_obj_create(parent): a new widget at any free address
lv_obj_create(parent, a, w) ==
    /\ obj' = [obj EXCEPT ![w] = [st |-> "valid", parent |-> parent.w, ud |-> 0]]
    /\ at' = [at EXCEPT ![a] = w]
    /\ UNCHANGED <<delCalls, fault>>

\* what deleting widget w takes with it: w and its descendants
DeletedBy(w) == {x \in Widgets : Valid(x) /\ IsDesc(x, w)}

\* lv_obj_delete(p), p non-null: the widget at p's address goes, with its
\* descendants.  When that widget is already deleted the call is a double free.
lv_obj_delete(p) ==
    LET t == Target(p) IN
    /\ obj' = [x \in Widgets |->
                 IF Valid(t) /\ x \in DeletedBy(t)
                 THEN [obj[x] EXCEPT !.st = "deleted"] ELSE obj[x]]
    /\ delCalls' = [delCalls EXCEPT ![t] = @ + 1]
    /\ fault' = IF Stale(p) /\ fault = "none" THEN "stale" ELSE fault
    /\ UNCHANGED at

EngineIdle == UNCHANGED <<obj, at, delCalls, fault>>

Running == fault # "null"

\* ------------------------------------------------------------------ Object
NextHandle(h) == hnd[h].st = "none" /\ \A k \in Handles : k < h => hnd[k].st # "none"
NextWidget(w) == Unused(w) /\ \A k \in Widgets : k < w => ~Unused(k)

\* explicit Object(lv_obj_t* parent) : ObjectView(lv_obj_create(parent))
ObjectCtor(h, parent) ==
    /\ Running /\ NextHandle(h)
    /\ \E w \in Widgets, a \in Addrs :
         /\ NextWidget(w) /\ FreeAddr(a)
         /\ lv_obj_create(parent, a, w)
         /\ hnd' = [hnd EXCEPT ![h] = [st |-> "live", m_obj |-> Ptr(a, w)]]
         /\ op' = Op("Object", h, 0, NULL, NULL, Ptr(a, w))
    /\ calls' = <<Call("lv_obj_create", parent)>>
    /\ UNCHANGED <<view, released>>
    /\ UNCHANGED drawVars
    /\ UNCHANGED libVars

\* ~Object(): if (m_obj) lv_obj_delete(m_obj);
ObjectDtor(h) ==
    /\ Running /\ hnd[h].st = "live"
    /\ IF hnd[h].m_obj # NULL
       THEN lv_obj_delete(hnd[h].m_obj) /\ calls' = <<Call("lv_obj_delete", hnd[h].m_obj)>>
       ELSE EngineIdle /\ calls' = <<>>
    /\ hnd' = [hnd EXCEPT ![h] = [st |-> "dead", m_obj |-> NULL]]
    /\ op' = Op("~Object", h, 0, hnd[h].m_obj, NULL, NULL)
    /\ UNCHANGED <<view, released>>
    /\ UNCHANGED drawVars
    /\ UNCHANGED libVars

\* Object(Object&& other) : ObjectView(other.m_obj) { other.m_obj = nullptr; }
ObjectMoveCtor(h, s) ==
    /\ Running /\ NextHandle(h) /\ hnd[s].st = "live"
    /\ hnd' = [hnd EXCEPT ![h] = [st |-> "live", m_obj |-> hnd[s].m_obj],
                          ![s] = [@ EXCEPT !.m_obj = NULL]]
    /\ op' = Op("Object(&&)", h, s, NULL, hnd[s].m_obj, NULL)
    /\ calls' = <<>>
    /\ EngineIdle
    /\ UNCHANGED <<view, released>>
    /\ UNCHANGED drawVars
    /\ UNCHANGED libVars

\* Object& operator=(Object&& other)
ObjectMoveAssign(d, s) ==
    /\ Running /\ hnd[d].st = "live" /\ hnd[s].st = "live"
    /\ IF d # s
       THEN /\ IF hnd[d].m_obj # NULL
               THEN lv_obj_delete(hnd[d].m_obj)
                    /\ calls' = <<Call("lv_obj_delete", hnd[d].m_obj)>>
               ELSE EngineIdle /\ calls' = <<>>
            /\ hnd' = [hnd EXCEPT ![d] = [@ EXCEPT !.m_obj = hnd[s].m_obj],
                                  ![s] = [@ EXCEPT !.m_obj = NULL]]
       ELSE EngineIdle /\ calls' = <<>> /\ UNCHANGED hnd
    /\ op' = Op("operator=(&&)", d, s, hnd[d].m_obj, hnd[s].m_obj, NULL)
    /\ UNCHANGED <<view, released>>
    /\ UNCHANGED drawVars
    /\ UNCHANGED libVars

\* lv_obj_t* release(): p = m_obj; m_obj = nullptr; return p;
ObjectRelease(h) ==
    /\ Running /\ hnd[h].st = "live"
    /\ hnd' = [hnd EXCEPT ![h] = [@ EXCEPT !.m_obj = NULL]]
    /\ released' = IF hnd[h].m_obj # NULL
                   THEN [released EXCEPT ![h] = @ \cup {hnd[h].m_obj.w}] ELSE released
    /\ op' = Op("release", h, 0, hnd[h].m_obj, NULL, hnd[h].m_obj)
    /\ calls' = <<>>
    /\ EngineIdle
    /\ UNCHANGED view
    /\ UNCHANGED drawVars
    /\ UNCHANGED libVars

NextObject ==
    \/ \E h \in Handles, p \in LivePtrs \cup {NULL} : ObjectCtor(h, p)
    \/ \E h \in Handles : ObjectDtor(h)
    \/ \E h \in Handles, s \in Handles : ObjectMoveCtor(h, s)
    \/ \E d \in Handles, s \in Handles : ObjectMoveAssign(d, s)
    \/ \E h \in Handles : ObjectRelease(h)

SpecObject == Init /\ [][NextObject]_vars
\* ------------------------------------------------------------------ properties of Object
AllHandlesGone == \A h \in Handles : hnd[h].st # "live"
Created == {w \in Widgets : ~Unused(w)}
Released == UNION {released[h] : h \in Handles}

\* C1: over Object construction, move-construction, move-assignment, release()
\* and destruction, lv_obj_delete is called at most once on each widget an
\* Object constructor created, and exactly once by the time every handle is
\* destroyed if the widget was never released.
C1_DeletedOnce ==
    /\ \A w \in Created : delCalls[w] <= 1
    /\ AllHandlesGone => \A w \in Created \ Released : delCalls[w] = 1
\* the pointer p designates a valid widget in the engine state (o, t)
FreshIn(o, t, p) == IF p.a = 0 THEN FALSE ELSE t[p.a] = p.w /\ o[p.w].st = "valid"
MoveOps == {"Object(&&)", "operator=(&&)"}

\* C2: a move (construction or assignment) from handle S into another handle D
\* leaves S null, so that S's destructor makes no engine call, leaves in D the
\* pointer S held, and does not delete the transferred widget; a self
\* move-assignment changes nothing and deletes nothing.
C2_MoveTransfers ==
    [][ /\ (op'.name \in MoveOps /\ op'.self # op'.other) =>
              /\ hnd'[op'.other].m_obj = NULL
              /\ hnd'[op'.self].m_obj = hnd[op'.other].m_obj
              /\ FreshIn(obj, at, hnd[op'.other].m_obj)
                    => FreshIn(obj', at', hnd[op'.other].m_obj)
        /\ (op'.name = "operator=(&&)" /\ op'.self = op'.other) =>
              /\ calls' = <<>>
              /\ UNCHANGED <<hnd, obj, at, delCalls>>
        /\ (op'.name = "~Object" /\ hnd[op'.self].m_obj = NULL) => calls' = <<>>
      ]_vars

\* C5: release() returns the pointer the handle held, leaves the handle null
\* and makes no lv_obj_delete call; no later lv_obj_delete issued through that
\* handle (its destructor included) reaches a widget it released.
C5_ReleaseKeeps ==
    [][ /\ op'.name = "release" =>
              /\ op'.ret = hnd[op'.self].m_obj
              /\ hnd'[op'.self].m_obj = NULL
              /\ calls' = <<>>
        /\ (op'.name \in {"~Object", "operator=(&&)"} /\ calls' # <<>>) =>
              Target(calls'[1].arg) \notin released[op'.self]
      ]_vars
\* ------------------------------------------------------------------ ObjectView
NextView(v) == view[v].st = "none" /\ \A k \in Views : k < v => view[k].st # "none"
LiveView(v) == view[v].st = "live"

\* the pointer the engine hands out for a valid widget w (NULL for none)
PtrOf(w) == IF w = 0 THEN NULL ELSE Ptr(CHOOSE a \in Addrs : at[a] = w, w)
\* the children of widget w, oldest first
ChildrenOf(w) == {x \in Widgets : Valid(x) /\ obj[x].parent = w}
FirstChild(w) == IF ChildrenOf(w) = {} THEN 0
                 ELSE CHOOSE x \in ChildrenOf(w) : \A y \in ChildrenOf(w) : x <= y

\* an engine accessor handed p: reading through a null pointer stops the
\* program, a stale pointer reads whatever is at its address.
EngineRead(p) ==
    /\ fault' = IF p = NULL THEN "null"
                ELSE IF Stale(p) /\ fault = "none" THEN "stale" ELSE fault
    /\ UNCHANGED <<obj, at, delCalls>>

\* lv_obj_set_user_data(p, data)
lv_obj_set_user_data(p, d) ==
    /\ fault' = IF p = NULL THEN "null"
                ELSE IF Stale(p) /\ fault = "none" THEN "stale" ELSE fault
    /\ obj' = IF p # NULL /\ Valid(Target(p))
              THEN [obj EXCEPT ![Target(p)] = [@ EXCEPT !.ud = d]] ELSE obj
    /\ UNCHANGED <<at, delCalls>>

\* lv_obj_clean(p): every child of the widget goes, with its descendants
lv_obj_clean(p) ==
    /\ fault' = IF p = NULL THEN "null"
                ELSE IF Stale(p) /\ fault = "none" THEN "stale" ELSE fault
    /\ obj' = IF p # NULL /\ Valid(Target(p))
              THEN [x \in Widgets |->
                      IF x # Target(p) /\ x \in DeletedBy(Target(p))
                      THEN [obj[x] EXCEPT !.st = "deleted"] ELSE obj[x]]
              ELSE obj
    /\ UNCHANGED <<at, delCalls>>

\* static Canvas create(lv_obj_t* parent) { return Canvas(wrap, lv_canvas_create(parent)); }
FacadeCreate(v, parent) ==
    /\ Running /\ NextView(v)
    /\ \E w \in Widgets, a \in Addrs :
         /\ NextWidget(w) /\ FreeAddr(a)
         /\ lv_obj_create(parent, a, w)
         /\ view' = [view EXCEPT ![v] = [st |-> "live", m_obj |-> Ptr(a, w), ndel |-> 0]]
         /\ op' = Op("create", v, 0, NULL, NULL, Ptr(a, w))
    /\ calls' = <<Call("lv_canvas_create", parent)>>
    /\ UNCHANGED <<hnd, released>>
    /\ UNCHANGED drawVars
    /\ UNCHANGED libVars

\* constexpr explicit ObjectView(lv_obj_t* obj) : m_obj(obj);  ObjectView() : m_obj(nullptr)
ViewWrap(v, p) ==
    /\ Running /\ NextView(v)
    /\ view' = [view EXCEPT ![v] = [st |-> "live", m_obj |-> p, ndel |-> 0]]
    /\ op' = Op("ObjectView", v, 0, NULL, NULL, p)
    /\ calls' = <<>>
    /\ EngineIdle
    /\ UNCHANGED <<hnd, released>>
    /\ UNCHANGED drawVars
    /\ UNCHANGED libVars

\* the implicit copy constructor: the copy holds the same pointer
ViewCopy(v, s) ==
    /\ Running /\ NextView(v) /\ LiveView(s)
    /\ view' = [view EXCEPT ![v] = [st |-> "live", m_obj |-> view[s].m_obj, ndel |-> 0]]
    /\ op' = Op("ObjectView(const&)", v, s, NULL, view[s].m_obj, NULL)
    /\ calls' = <<>>
    /\ EngineIdle
    /\ UNCHANGED <<hnd, released>>
    /\ UNCHANGED drawVars
    /\ UNCHANGED libVars

\* ObjectView& user_data(void* data) { lv_obj_set_user_data(m_obj, data); }
ViewUserData(v, d) ==
    /\ Running /\ LiveView(v)
    /\ lv_obj_set_user_data(view[v].m_obj, d)
    /\ calls' = <<Call("lv_obj_set_user_data", view[v].m_obj)>>
    /\ op' = Op("user_data", v, 0, view[v].m_obj, NULL, v)
    /\ UNCHANGED <<hnd, view, released>>
    /\ UNCHANGED drawVars
    /\ UNCHANGED libVars

\* bool has_flag(flag) const { return lv_obj_has_flag(m_obj, flag); }  (and the
\* other getters: has_state, child_count, user_data())
ViewHasFlag(v) ==
    /\ Running /\ LiveView(v)
    /\ EngineRead(view[v].m_obj)
    /\ calls' = <<Call("lv_obj_has_flag", view[v].m_obj)>>
    /\ op' = Op("has_flag", v, 0, view[v].m_obj, NULL, NULL)
    /\ UNCHANGED <<hnd, view, released>>
    /\ UNCHANGED drawVars
    /\ UNCHANGED libVars

\* ObjectView parent() const { return ObjectView(lv_obj_get_parent(m_obj)); }
ViewParent(n, v) ==
    /\ Running /\ NextView(n) /\ LiveView(v)
    /\ EngineRead(view[v].m_obj)
    /\ LET p == view[v].m_obj
           r == IF p # NULL /\ Valid(Target(p)) THEN PtrOf(obj[Target(p)].parent) ELSE NULL
       IN /\ view' = [view EXCEPT ![n] = [st |-> "live", m_obj |-> r, ndel |-> 0]]
          /\ op' = Op("parent", v, n, p, NULL, r)
    /\ calls' = <<Call("lv_obj_get_parent", view[v].m_obj)>>
    /\ UNCHANGED <<hnd, released>>
    /\ UNCHANGED drawVars
    /\ UNCHANGED libVars

\* ObjectView child(int32_t idx) const { return ObjectView(lv_obj_get_child(m_obj, idx)); }
ViewChild(n, v) ==
    /\ Running /\ NextView(n) /\ LiveView(v)
    /\ EngineRead(view[v].m_obj)
    /\ LET p == view[v].m_obj
           r == IF p # NULL /\ Valid(Target(p)) THEN PtrOf(FirstChild(Target(p))) ELSE NULL
       IN /\ view' = [view EXCEPT ![n] = [st |-> "live", m_obj |-> r, ndel |-> 0]]
          /\ op' = Op("child", v, n, p, NULL, r)
    /\ calls' = <<Call("lv_obj_get_child", view[v].m_obj)>>
    /\ UNCHANGED <<hnd, released>>
    /\ UNCHANGED drawVars
    /\ UNCHANGED libVars

\* how many times del() was called on a view: 0, 1, or 2 for "more than once"
Again(n) == IF n = 0 THEN 1 ELSE 2

\* a del() that deletes the widget and keeps its pointer
ViewDel_KeepsPointer(v) ==
    /\ Running /\ LiveView(v)
    /\ IF view[v].m_obj # NULL
       THEN /\ lv_obj_delete(view[v].m_obj)
            /\ calls' = <<Call("lv_obj_delete", view[v].m_obj)>>
       ELSE /\ EngineIdle /\ calls' = <<>>
    /\ view' = [view EXCEPT ![v] = [@ EXCEPT !.ndel = Again(@)]]
    /\ op' = Op("del", v, 0, view[v].m_obj, NULL, NULL)
    /\ UNCHANGED <<hnd, released>>
    /\ UNCHANGED drawVars
    /\ UNCHANGED libVars

\* void del() { if (m_obj) { lv_obj_delete(m_obj); m_obj = nullptr; } }
ViewDel(v) ==
    /\ Running /\ LiveView(v)
    /\ IF view[v].m_obj # NULL
       THEN /\ lv_obj_delete(view[v].m_obj)
            /\ calls' = <<Call("lv_obj_delete", view[v].m_obj)>>
            /\ view' = [view EXCEPT ![v] = [@ EXCEPT !.m_obj = NULL, !.ndel = Again(@)]]
       ELSE /\ EngineIdle /\ calls' = <<>>
            /\ view' = [view EXCEPT ![v] = [@ EXCEPT !.ndel = Again(@)]]
    /\ op' = Op("del", v, 0, view[v].m_obj, NULL, NULL)
    /\ UNCHANGED <<hnd, released>>
    /\ UNCHANGED drawVars
    /\ UNCHANGED libVars

\* void clean() { lv_obj_clean(m_obj); }
ViewClean(v) ==
    /\ Running /\ LiveView(v)
    /\ lv_obj_clean(view[v].m_obj)
    /\ calls' = <<Call("lv_obj_clean", view[v].m_obj)>>
    /\ op' = Op("clean", v, 0, view[v].m_obj, NULL, NULL)
    /\ UNCHANGED <<hnd, view, released>>
    /\ UNCHANGED drawVars
    /\ UNCHANGED libVars

\* a view destructor that deletes the widget, as Object's does
ViewDtor_Owning(v) ==
    /\ Running /\ LiveView(v)
    /\ IF view[v].m_obj # NULL
       THEN lv_obj_delete(view[v].m_obj) /\ calls' = <<Call("lv_obj_delete", view[v].m_obj)>>
       ELSE EngineIdle /\ calls' = <<>>
    /\ view' = [view EXCEPT ![v] = [st |-> "dead", m_obj |-> NULL, ndel |-> 0]]
    /\ op' = Op("~ObjectView", v, 0, view[v].m_obj, NULL, NULL)
    /\ UNCHANGED <<hnd, released>>
    /\ UNCHANGED drawVars
    /\ UNCHANGED libVars

\* the implicit (trivial) destructor: the view goes, the engine is not told
ViewDtor(v) ==
    /\ Running /\ LiveView(v)
    /\ view' = [view EXCEPT ![v] = [st |-> "dead", m_obj |-> NULL, ndel |-> 0]]
    /\ op' = Op("~ObjectView", v, 0, view[v].m_obj, NULL, NULL)
    /\ calls' = <<>>
    /\ EngineIdle
    /\ UNCHANGED <<hnd, released>>
    /\ UNCHANGED drawVars
    /\ UNCHANGED libVars

UserData == {0, 1}

NextViews ==
    \/ \E v \in Views, p \in LivePtrs \cup {NULL} : FacadeCreate(v, p)
    \/ \E v \in Views, p \in LivePtrs \cup {NULL} : ViewWrap(v, p)
    \/ \E v \in Views, s \in Views : ViewCopy(v, s)
    \/ \E v \in Views, d \in UserData : ViewUserData(v, d)
    \/ \E v \in Views : ViewHasFlag(v)
    \/ \E n \in Views, v \in Views : ViewParent(n, v)
    \/ \E n \in Views, v \in Views : ViewChild(n, v)
    \/ \E v \in Views : ViewDel(v)
    \/ \E v \in Views : ViewClean(v)
    \/ \E v \in Views : ViewDtor(v)

SpecView == Init /\ [][NextViews]_vars
\* ------------------------------------------------------------------ properties of ObjectView
NothingDeleted == \A w \in Widgets : obj[w].st = "valid" => obj'[w].st = "valid"

\* C3 (as stated): no operation invoked on a view causes an engine object to
\* be deleted.
C3_ViewNeverFrees == [][NothingDeleted]_vars

\* C3 (amended): no operation of a view other than the explicit del() and
\* clean() causes an engine object to be deleted: constructing, copying,
\* reading through, writing through and destroying a view delete nothing.
C3_ViewFreesOnlyExplicitly ==
    [][op'.name \notin {"del", "clean"} => NothingDeleted /\ UNCHANGED delCalls]_vars

\* a view holding a valid widget went out of scope and the widget is still there
C3_Witness == op.name = "~ObjectView" /\ Fresh(op.pre)

\* C4: del() on a non-null view calls lv_obj_delete exactly once, on the
\* pointer the view held, and leaves the view null; every later del() on that
\* view forwards nothing to the engine.
C4_DelNullsView ==
    [][op'.name = "del" =>
          /\ view'[op'.self].m_obj = NULL
          /\ IF view[op'.self].m_obj # NULL /\ view[op'.self].ndel = 0
             THEN calls' = <<Call("lv_obj_delete", view[op'.self].m_obj)>>
             ELSE calls' = <<>> /\ UNCHANGED <<obj, at, delCalls, fault>>
      ]_vars

\* del() was called again on a view whose first del() deleted its widget
C4_Witness ==
    /\ op.name = "del" /\ view[op.self].ndel = 2 /\ calls = <<>>
    /\ \E w \in Widgets : delCalls[w] = 1 /\ obj[w].st = "deleted"
\* ------------------------------------------------------------------ draw pipeline
WithCoords  == {"fill", "border", "box_shadow", "rect", "image", "label"}
NoCoords    == {"line", "arc", "triangle"}
Kinds       == WithCoords \cup NoCoords
Convenience == {"line", "arc", "triangle", "label", "image"}
AreasOf(k)  == IF k \in WithCoords THEN Areas ELSE {NoArea}

\* storage for a new descriptor: the first slot no live descriptor occupies
NextDsc(d) == dsc[d].st # "live" /\ \A k \in Dscs : k < d => dsc[k].st = "live"
Given(k, v, ar) == [type |-> k, val |-> v, area |-> ar]
DrawOp(n, d) == [name |-> n, self |-> d, ret |-> 0]

Last(q) == q[Len(q)]

\* engine, lv_draw_<kind>(layer, dsc, coords): the task it queues holds a copy
\* of *dsc made during the call; ref is the descriptor the copy was made from
\* (0: a descriptor local to the wrapper)
lv_draw_task(k, v, ref, ar) == [type |-> k, val |-> v, ref |-> ref, area |-> ar]

\* "a complete rectangle (fill + border + image + shadow)": lv_draw_rect queues
\* one task for each part the descriptor makes visible, none of type rect
RectParts == {<<"fill">>, <<"fill", "border">>}
PartsOf(k) == IF k = "rect" THEN RectParts ELSE {<<k>>}

\* engine, lv_draw_<kind>(layer, dsc, coords)
lv_draw(k, v, ref, ar, parts) ==
    pending' = pending \o [i \in 1..Len(parts) |-> lv_draw_task(parts[i], v, ref, ar)]

\* engine: the descriptor payload a task carries is its own copy
TaskDsc(t) == t.val

\* what the dispatcher gets to see of a task
Captured(t) == Given(t.type, TaskDsc(t), t.area)
CapturedPending == [i \in 1..Len(pending) |-> Captured(pending[i])]

\* engine, lv_canvas_init_layer(canvas, layer): the layer is bound to the
\* canvas and starts empty
lv_canvas_init_layer ==
    /\ lstate' = "accepting"
    /\ pending' = <<>>
    /\ dispatched' = <<>>

\* engine, lv_canvas_finish_layer(canvas, layer): every queued task goes through
\* the dispatcher, oldest first, before the call returns
lv_canvas_finish_layer ==
    /\ lstate' = "finished"
    /\ dispatched' = dispatched \o CapturedPending
    /\ pending' = <<>>

\* FillDsc() { lv_draw_fill_dsc_init(&m_dsc); } and the other descriptors alike
DscCtor(d, k) ==
    /\ NextDsc(d)
    /\ dsc' = [dsc EXCEPT ![d] = [st |-> "live", kind |-> k, val |-> 0]]
    /\ op' = DrawOp("Dsc", d)
    /\ calls' = <<Call("lv_draw_dsc_init", k)>>
    /\ UNCHANGED <<lstate, pending, dispatched, given, areaOut>>
    /\ UNCHANGED objVars
    /\ UNCHANGED libVars

\* a setter that writes the descriptor and nothing else
DscSet_WritesTasks(d, x) ==
    /\ dsc[d].st = "live"
    /\ dsc' = [dsc EXCEPT ![d] = [@ EXCEPT !.val = x]]
    /\ pending' = [i \in 1..Len(pending) |->
                     IF pending[i].ref = d THEN [pending[i] EXCEPT !.val = x] ELSE pending[i]]
    /\ op' = [DrawOp("set", d) EXCEPT !.ret = d]
    /\ calls' = <<>>
    /\ UNCHANGED <<lstate, dispatched, given, areaOut>>
    /\ UNCHANGED objVars
    /\ UNCHANGED libVars

\* FillDsc& color(lv_color_t c) { m_dsc.color = c; return *this; } and every
\* other fluent setter: the descriptor's own record is written
DscSet(d, x) ==
    /\ dsc[d].st = "live"
    /\ dsc' = [dsc EXCEPT ![d] = [@ EXCEPT !.val = x]]
    /\ op' = [DrawOp("set", d) EXCEPT !.ret = d]
    /\ calls' = <<>>
    /\ UNCHANGED <<lstate, pending, dispatched, given, areaOut>>
    /\ UNCHANGED objVars
    /\ UNCHANGED libVars

\* the descriptor goes out of scope (implicit destructor): its storage is gone
DscDtor(d) ==
    /\ dsc[d].st = "live"
    /\ dsc' = [dsc EXCEPT ![d] = [st |-> "dead", kind |-> "none", val |-> 0]]
    /\ op' = DrawOp("~Dsc", d)
    /\ calls' = <<>>
    /\ UNCHANGED <<lstate, pending, dispatched, given, areaOut>>
    /\ UNCHANGED objVars
    /\ UNCHANGED libVars

\* a draw:: call that forwards every rectangle primitive to lv_draw_fill
Draw_AllFill(d, ar) ==
    /\ dsc[d].st = "live" /\ Len(given) < MaxTasks
    /\ ar \in AreasOf(dsc[d].kind)
    /\ LET k == IF dsc[d].kind \in {"border", "box_shadow", "rect"} THEN "fill" ELSE dsc[d].kind IN
         /\ \E parts \in PartsOf(k) : lv_draw(k, dsc[d].val, d, ar, parts)
         /\ calls' = <<Call("lv_draw", Given(k, dsc[d].val, ar))>>
    /\ given' = Append(given, Given(dsc[d].kind, dsc[d].val, ar))
    /\ op' = DrawOp("draw", d)
    /\ UNCHANGED <<dsc, lstate, dispatched, areaOut>>
    /\ UNCHANGED objVars
    /\ UNCHANGED libVars

\* a draw:: call that checks the layer first and drops the call otherwise
Draw_Validating(d, ar) ==
    /\ dsc[d].st = "live" /\ Len(given) < MaxTasks
    /\ ar \in AreasOf(dsc[d].kind)
    /\ IF lstate = "accepting"
       THEN /\ \E parts \in PartsOf(dsc[d].kind) : lv_draw(dsc[d].kind, dsc[d].val, d, ar, parts)
            /\ calls' = <<Call("lv_draw", Given(dsc[d].kind, dsc[d].val, ar))>>
       ELSE UNCHANGED pending /\ calls' = <<>>
    /\ given' = Append(given, Given(dsc[d].kind, dsc[d].val, ar))
    /\ op' = DrawOp("draw", d)
    /\ UNCHANGED <<dsc, lstate, dispatched, areaOut>>
    /\ UNCHANGED objVars
    /\ UNCHANGED libVars

\* draw::fill(layer, dsc, coords) { lv_draw_fill(layer, dsc.get(), &coords); }
\* and border, box_shadow, rect, image, label alike; draw::line(layer, dsc)
\* { lv_draw_line(layer, dsc.get()); } and arc, triangle alike
Draw(d, ar) ==
    /\ dsc[d].st = "live" /\ Len(given) < MaxTasks
    /\ ar \in AreasOf(dsc[d].kind)
    /\ \E parts \in PartsOf(dsc[d].kind) : lv_draw(dsc[d].kind, dsc[d].val, d, ar, parts)
    /\ calls' = <<Call("lv_draw", Given(dsc[d].kind, dsc[d].val, ar))>>
    /\ given' = Append(given, Given(dsc[d].kind, dsc[d].val, ar))
    /\ op' = DrawOp("draw", d)
    /\ UNCHANGED <<dsc, lstate, dispatched, areaOut>>
    /\ UNCHANGED objVars
    /\ UNCHANGED libVars

\* the convenience overloads, e.g. draw::line(layer, x1, y1, x2, y2, color, width)
\* { LineDsc dsc; dsc.points(..).color(color).width(width); lv_draw_line(layer, dsc.get()); }
\* : a local descriptor is built, handed to the engine and destroyed on return
DrawConvenience(k, x, ar) ==
    /\ k \in Convenience /\ Len(given) < MaxTasks
    /\ ar \in AreasOf(k)
    /\ \E parts \in PartsOf(k) : lv_draw(k, x, 0, ar, parts)
    /\ calls' = <<Call("lv_draw_dsc_init", k), Call("lv_draw", Given(k, x, ar))>>
    /\ given' = Append(given, Given(k, x, ar))
    /\ op' = DrawOp("draw", 0)
    /\ UNCHANGED <<dsc, lstate, dispatched, areaOut>>
    /\ UNCHANGED objVars
    /\ UNCHANGED libVars

\* void init_layer(L& layer) { lv_canvas_init_layer(m_obj, layer.get()); }
Canvas_init_layer ==
    /\ lv_canvas_init_layer
    /\ given' = <<>>
    /\ op' = DrawOp("init_layer", 0)
    /\ calls' = <<Call("lv_canvas_init_layer", 0)>>
    /\ UNCHANGED <<dsc, areaOut>>
    /\ UNCHANGED objVars
    /\ layer' = lv_canvas_init_layer_areas
    /\ UNCHANGED <<style, srec, dbuf, ebuf, ui>>

\* a finish_layer that returns without telling the engine
Canvas_finish_layer_Silent ==
    /\ op' = DrawOp("finish_layer", 0)
    /\ calls' = <<>>
    /\ UNCHANGED <<dsc, areaOut, given, lstate, pending, dispatched>>
    /\ UNCHANGED objVars
    /\ UNCHANGED libVars

\* void finish_layer(L& layer) { lv_canvas_finish_layer(m_obj, layer.get()); }
Canvas_finish_layer ==
    /\ lv_canvas_finish_layer
    /\ op' = DrawOp("finish_layer", 0)
    /\ calls' = <<Call("lv_canvas_finish_layer", 0)>>
    /\ UNCHANGED <<dsc, areaOut, given>>
    /\ UNCHANGED objVars
    /\ UNCHANGED libVars

\* ------------------------------------------------------------------ DrawTaskView
\* A DrawTaskView wraps task i of the layer's queue; 0 is the null view.
TaskRefs == 0..Len(pending)
TaskOp(n, i, r) == [name |-> n, self |-> i, ret |-> r]

\* lv_draw_task_type_t type() const
\*   { return m_task ? lv_draw_task_get_type(m_task) : LV_DRAW_TASK_TYPE_NONE; }
DrawTaskView_type(i) ==
    /\ i \in TaskRefs
    /\ op' = TaskOp("type", i, IF i = 0 THEN "none" ELSE pending[i].type)
    /\ calls' = IF i = 0 THEN <<>> ELSE <<Call("lv_draw_task_get_type", i)>>
    /\ UNCHANGED drawVars
    /\ UNCHANGED objVars
    /\ UNCHANGED libVars

\* a get_area that copies the caller's area into the task
DrawTaskView_get_area_Swapped(i, hasArea) ==
    /\ i \in TaskRefs
    /\ IF i # 0 /\ hasArea
       THEN /\ pending' = [pending EXCEPT ![i] = [@ EXCEPT !.area = areaOut]]
            /\ calls' = <<Call("lv_draw_task_get_area", i)>>
       ELSE UNCHANGED pending /\ calls' = <<>>
    /\ op' = TaskOp("get_area", i, 0)
    /\ UNCHANGED <<dsc, lstate, dispatched, given, areaOut>>
    /\ UNCHANGED objVars
    /\ UNCHANGED libVars

\* void get_area(lv_area_t* area) const
\*   { if (m_task && area) lv_draw_task_get_area(m_task, area); }
DrawTaskView_get_area(i, hasArea) ==
    /\ i \in TaskRefs
    /\ IF i # 0 /\ hasArea
       THEN areaOut' = pending[i].area /\ calls' = <<Call("lv_draw_task_get_area", i)>>
       ELSE UNCHANGED areaOut /\ calls' = <<>>
    /\ op' = TaskOp("get_area", i, 0)
    /\ UNCHANGED <<dsc, lstate, pending, dispatched, given>>
    /\ UNCHANGED objVars
    /\ UNCHANGED libVars

\* void* draw_dsc() const { return m_task ? lv_draw_task_get_draw_dsc(m_task) : nullptr; }
\* (draw_dsc_as<T>() casts its result): the address of the task's payload
DrawTaskView_draw_dsc(i) ==
    /\ i \in TaskRefs
    /\ op' = TaskOp("draw_dsc", i, i)
    /\ calls' = IF i = 0 THEN <<>> ELSE <<Call("lv_draw_task_get_draw_dsc", i)>>
    /\ UNCHANGED drawVars
    /\ UNCHANGED objVars
    /\ UNCHANGED libVars

\* lv_draw_fill_dsc_t* fill_dsc() const
\*   { return m_task ? lv_draw_task_get_fill_dsc(m_task) : nullptr; }
\* and border_dsc, box_shadow_dsc, label_dsc, image_dsc, line_dsc, arc_dsc,
\* triangle_dsc alike: the payload's address if the task is of that type
DrawTaskView_typed_dsc(i, k) ==
    /\ i \in TaskRefs /\ k \in Kinds \ {"rect"}
    /\ op' = TaskOp("typed_dsc", i, IF i # 0 /\ pending[i].type = k THEN i ELSE 0)
    /\ calls' = IF i = 0 THEN <<>> ELSE <<Call("lv_draw_task_get_typed_dsc", i)>>
    /\ UNCHANGED drawVars
    /\ UNCHANGED objVars
    /\ UNCHANGED libVars

NextDraw ==
    \/ \E d \in Dscs, k \in Kinds : DscCtor(d, k)
    \/ \E d \in Dscs, x \in Vals : DscSet(d, x)
    \/ \E d \in Dscs : DscDtor(d)
    \/ \E d \in Dscs, ar \in Areas \cup {NoArea} : Draw(d, ar)
    \/ \E k \in Convenience, x \in Vals, ar \in Areas \cup {NoArea} : DrawConvenience(k, x, ar)
    \/ Canvas_init_layer
    \/ Canvas_finish_layer

\* descriptors, draw calls and the canvas layer
SpecDraw == Init /\ [][NextDraw]_vars

NextTask ==
    \/ \E k \in Convenience, x \in Vals, ar \in Areas \cup {NoArea} : DrawConvenience(k, x, ar)
    \/ Canvas_init_layer
    \/ Canvas_finish_layer
    \/ \E i \in 0..MaxTasks : DrawTaskView_type(i)
    \/ \E i \in 0..MaxTasks, b \in BOOLEAN : DrawTaskView_get_area(i, b)
    \/ \E i \in 0..MaxTasks : DrawTaskView_draw_dsc(i)
    \/ \E i \in 0..MaxTasks, k \in Kinds : DrawTaskView_typed_dsc(i, k)

\* queued tasks and the views taken of them
SpecTask == Init /\ [][NextTask]_vars

NoRectGiven == \A i \in 1..Len(given) : given[i].type # "rect"

C7_FinishFlushes ==
    [][op'.name = "finish_layer" =>
         /\ pending' = <<>>
         /\ Len(dispatched') = Len(dispatched) + Len(pending)
         /\ \A i \in 1..Len(pending) :
              dispatched'[Len(dispatched) + i] = Captured(pending[i])]_vars

C7_Witness == op.name = "finish_layer" /\ Len(dispatched) = MaxTasks /\ pending = <<>>

\* C8: setting a field of a descriptor or destroying it after the draw:: call
\* changes no task already queued or dispatched, and the task queued by a
\* convenience overload still carries the values passed once the overload's
\* local descriptor is gone.
C8_DescriptorCopied ==
    [][/\ op'.name \in {"set", "~Dsc"} =>
            CapturedPending' = CapturedPending /\ dispatched' = dispatched
       /\ (op'.name = "draw" /\ op'.self = 0) =>
            Last(CapturedPending') = Last(given')]_vars

\* a queued task whose descriptor has since been set to another value
C8_Witness ==
    /\ op.name = "set"
    /\ \E i \in 1..Len(pending) :
         pending[i].ref = op.self /\ dsc[op.self].val # TaskDsc(pending[i])

TaskViewOps == {"type", "get_area", "draw_dsc", "typed_dsc"}

\* C9: no DrawTaskView operation (type, get_area, draw_dsc, the typed
\* accessors) changes the type, area or payload of any task.
C9_TaskViewReadOnly ==
    [][op'.name \in TaskViewOps => UNCHANGED <<pending, dispatched>>]_vars

\* get_area on a queued task has filled in the caller's area
C9_Witness ==
    /\ op.name = "get_area" /\ op.self # 0 /\ op.self <= Len(pending)
    /\ calls # <<>>
    /\ areaOut = pending[op.self].area /\ areaOut # NoArea

\* C10: whatever state the layer is in (never initialized, accepting, finished),
\* a draw:: call ends with exactly one drawing call into the engine, carrying the
\* primitive, descriptor fields and area it was given; none is dropped.
C10_DrawNeverRejected ==
    [][op'.name = "draw" =>
         /\ calls' # <<>>
         /\ Last(calls') = Call("lv_draw", Last(given'))
         /\ \A i \in 1..(Len(calls') - 1) : calls'[i].fn # "lv_draw"]_vars

\* a draw:: call made after finish_layer has dispatched the earlier ones
C10_Witness ==
    /\ op.name = "draw" /\ lstate = "finished"
    /\ calls # <<>> /\ Last(calls).fn = "lv_draw"
    /\ dispatched # <<>>

\* ------------------------------------------------------------------ Layer
\* the areas a caller hands to init_with_parent; NullArea is a null lv_area_t*
LayerAreas == {area(0, 0, 9, 9), area(2, 2, 5, 5), area(5, 5, 2, 2)}
NullArea == [null |-> TRUE]
Bits == {0, 1}

\* The one Layer object is object 1; ret is the object the returned reference
\* designates (0: the operation returns no reference).
LayerOp(n, r) == [name |-> n, self |-> 1, ret |-> r]
LayerFrame ==
    /\ UNCHANGED <<obj, at, delCalls, hnd, view, released>>
    /\ UNCHANGED <<dsc, areaOut>>
    /\ UNCHANGED <<style, srec, dbuf, ebuf, ui>>
QueueFrame == UNCHANGED <<lstate, pending, dispatched, given>>

\* engine, lv_layer_reset(layer): opacity and recolor go back to their defaults
lv_layer_reset(l) == [l EXCEPT !.opa = 1, !.recolor = 0]

\* engine, lv_draw_layer_init(layer, parent, cf, area): the layer is initialised
\* anew and both of its areas become *area
lv_draw_layer_init(a) == [lv_layer_init EXCEPT !.buf_area = a, !.clip_area = a]

\* Layer() noexcept { lv_layer_init(&m_layer); }: a new Layer, nothing queued
Layer_ctor ==
    /\ Running
    /\ layer' = lv_layer_init
    /\ lstate' = "uninitialized" /\ pending' = <<>> /\ dispatched' = <<>> /\ given' = <<>>
    /\ op' = LayerOp("Layer", 0)
    /\ calls' = <<Call("lv_layer_init", 1)>>
    /\ UNCHANGED fault /\ LayerFrame

\* Layer& reset() { lv_layer_reset(&m_layer); return *this; }
Layer_reset ==
    /\ Running
    /\ layer' = lv_layer_reset(layer)
    /\ op' = LayerOp("reset", 1)
    /\ calls' = <<Call("lv_layer_reset", 1)>>
    /\ UNCHANGED fault /\ LayerFrame /\ QueueFrame

\* an init_with_parent that stores the buffer area itself and leaves the rest
Layer_init_with_parent_BufOnly(a) ==
    /\ Running /\ a \in LayerAreas
    /\ layer' = [layer EXCEPT !.buf_area = a]
    /\ op' = LayerOp("init_with_parent", 1)
    /\ calls' = <<>>
    /\ UNCHANGED fault /\ LayerFrame /\ QueueFrame

\* Layer& init_with_parent(parent_layer, cf, area)
\*   { lv_draw_layer_init(&m_layer, parent_layer, cf, area); return *this; }
\* area is forwarded as it is; the engine reads *area, so a null area is a null
\* dereference: the run stops there, or both areas get whatever was read
Layer_init_with_parent(a) ==
    /\ Running
    /\ IF a = NullArea
       THEN \/ fault' = "null" /\ UNCHANGED layer
            \/ \E g \in LayerAreas : layer' = lv_draw_layer_init(g) /\ UNCHANGED fault
       ELSE layer' = lv_draw_layer_init(a) /\ UNCHANGED fault
    /\ op' = LayerOp("init_with_parent", 1)
    /\ calls' = <<Call("lv_draw_layer_init", a)>>
    /\ LayerFrame /\ QueueFrame

\* void* alloc_buf() { return lv_draw_layer_alloc_buf(&m_layer); }
Layer_alloc_buf ==
    /\ Running
    /\ op' = LayerOp("alloc_buf", 0)
    /\ calls' = <<Call("lv_draw_layer_alloc_buf", 1)>>
    /\ UNCHANGED <<layer, fault>> /\ LayerFrame /\ QueueFrame

\* a setter declared to return Layer by value: the caller gets a copy
Layer_opa_ByValue(x) ==
    /\ Running
    /\ layer' = [layer EXCEPT !.opa = x]
    /\ op' = LayerOp("opa", 0)
    /\ calls' = <<>>
    /\ UNCHANGED fault /\ LayerFrame /\ QueueFrame

\* Layer& opa(lv_opa_t opacity) { m_layer.opa = opacity; return *this; }
Layer_opa(x) ==
    /\ Running
    /\ layer' = [layer EXCEPT !.opa = x]
    /\ op' = LayerOp("opa", 1)
    /\ calls' = <<>>
    /\ UNCHANGED fault /\ LayerFrame /\ QueueFrame

\* Layer& user_data(void* data) { m_layer.user_data = data; return *this; }
Layer_user_data(x) ==
    /\ Running
    /\ layer' = [layer EXCEPT !.user_data = x]
    /\ op' = LayerOp("user_data", 1)
    /\ calls' = <<>>
    /\ UNCHANGED fault /\ LayerFrame /\ QueueFrame

\* Layer& all_tasks_added(bool added) { m_layer.all_tasks_added = added; return *this; }
Layer_all_tasks_added(b) ==
    /\ Running
    /\ layer' = [layer EXCEPT !.all_tasks_added = b]
    /\ op' = LayerOp("all_tasks_added", 1)
    /\ calls' = <<>>
    /\ UNCHANGED fault /\ LayerFrame /\ QueueFrame

\* Layer& recolor(lv_color32_t c) { m_layer.recolor = c; return *this; }
Layer_recolor(x) ==
    /\ Running
    /\ layer' = [layer EXCEPT !.recolor = x]
    /\ op' = LayerOp("recolor", 1)
    /\ calls' = <<>>
    /\ UNCHANGED fault /\ LayerFrame /\ QueueFrame

NextLayer ==
    \/ Layer_ctor
    \/ Layer_reset
    \/ \E a \in LayerAreas \cup {NullArea} : Layer_init_with_parent(a)
    \/ Layer_alloc_buf
    \/ \E x \in Bits : Layer_opa(x)
    \/ \E x \in Bits : Layer_user_data(x)
    \/ \E b \in BOOLEAN : Layer_all_tasks_added(b)
    \/ \E x \in Bits : Layer_recolor(x)
    \/ Running /\ Canvas_init_layer
    \/ Running /\ Canvas_finish_layer

\* one Layer, its operations and the canvas sessions run on it
SpecLayer == Init /\ [][NextLayer]_vars

\* inner lies within outer (each edge of inner on or inside that of outer)
AreaIn(inner, outer) ==
    /\ inner.x1 >= outer.x1 /\ inner.y1 >= outer.y1
    /\ inner.x2 <= outer.x2 /\ inner.y2 <= outer.y2

\* C11: in every reachable state the Layer's clip area (clip_area()) lies
\* within its buffer area (buf_area()).
C11_ClipWithinBuf == AreaIn(layer.clip_area, layer.buf_area)

\* a layer bound to a canvas, then given its own area, then changed by a setter
C11_Witness ==
    /\ op.name = "opa" /\ layer.opa = 0
    /\ layer.buf_area = area(2, 2, 5, 5) /\ layer.clip_area = area(2, 2, 5, 5)
    /\ lstate = "accepting"

\* ------------------------------------------------------------------ Style
StyleOp(n, i, o, r) ==
    [name |-> n, self |-> i, other |-> o, ret |-> r,
     pre |-> IF i = 0 THEN 0 ELSE style[i].rec, opre |-> IF o = 0 THEN 0 ELSE style[o].rec]
StyleFrame ==
    /\ UNCHANGED <<obj, at, delCalls, fault, hnd, view, released>>
    /\ UNCHANGED <<dsc, lstate, pending, dispatched, given, areaOut>>
    /\ UNCHANGED <<layer, dbuf, ebuf, ui>>

NextStyle(i) == style[i].st = "none" /\ \A k \in Styles : k < i => style[k].st # "none"
NextRec(r) == srec[r].st = "none" /\ \A k \in Recs : k < r => srec[k].st # "none"

\* engine, lv_style_init(s): the style points to no record and has no property
lv_style_init(st, i) == [st EXCEPT ![i] = [@ EXCEPT !.rec = 0]]

\* engine, lv_style_reset(s): the record the style points to is freed (a second
\* time, if it was freed already)
lv_style_reset(sr, r) ==
    IF r = 0 THEN sr
    ELSE [sr EXCEPT ![r] = [@ EXCEPT !.st = "freed", !.frees = @ + 1]]

\* engine, lv_style_set_<prop>(s, value): the property is stored in the style's
\* record, which is allocated when the style has none
lv_style_set_prop(i, p, v, r) ==
    IF style[i].rec = 0
    THEN /\ NextRec(r)
         /\ srec' = [srec EXCEPT ![r] = [st |-> "live", props |-> [NoProps EXCEPT ![p] = v], frees |-> 0]]
         /\ style' = [style EXCEPT ![i] = [@ EXCEPT !.rec = r]]
    ELSE /\ r = style[i].rec
         /\ srec' = [srec EXCEPT ![r] = [@ EXCEPT !.props = [@ EXCEPT ![p] = v]]]
         /\ UNCHANGED style

\* Style() noexcept { lv_style_init(&m_style); }
Style_ctor(i) ==
    /\ NextStyle(i)
    /\ style' = lv_style_init([style EXCEPT ![i] = [@ EXCEPT !.st = "live"]], i)
    /\ op' = StyleOp("Style", i, 0, 0)
    /\ calls' = <<Call("lv_style_init", i)>>
    /\ UNCHANGED srec /\ StyleFrame

\* ~Style() { lv_style_reset(&m_style); }
Style_dtor(i) ==
    /\ style[i].st = "live"
    /\ srec' = lv_style_reset(srec, style[i].rec)
    /\ style' = [style EXCEPT ![i] = [st |-> "dead", rec |-> 0]]
    /\ op' = StyleOp("~Style", i, 0, 0)
    /\ calls' = <<Call("lv_style_reset", i)>>
    /\ StyleFrame

\* a move constructor that copies the record and leaves the source as it was
Style_move_ctor_NoReinit(d, s) ==
    /\ NextStyle(d) /\ style[s].st = "live"
    /\ style' = [style EXCEPT ![d] = [st |-> "live", rec |-> style[s].rec]]
    /\ op' = StyleOp("Style(&&)", d, s, 0)
    /\ calls' = <<>>
    /\ UNCHANGED srec /\ StyleFrame

\* Style(Style&& other) noexcept : m_style(other.m_style) { lv_style_init(&other.m_style); }
Style_move_ctor(d, s) ==
    /\ NextStyle(d) /\ style[s].st = "live"
    /\ style' = lv_style_init([style EXCEPT ![d] = [st |-> "live", rec |-> style[s].rec]], s)
    /\ op' = StyleOp("Style(&&)", d, s, 0)
    /\ calls' = <<Call("lv_style_init", s)>>
    /\ UNCHANGED srec /\ StyleFrame

\* Style& operator=(Style&& other) noexcept {
\*   if (this != &other) { lv_style_reset(&m_style); m_style = other.m_style;
\*                         lv_style_init(&other.m_style); }
\*   return *this; }
Style_move_assign(d, s) ==
    /\ style[d].st = "live" /\ style[s].st = "live"
    /\ IF d # s
       THEN /\ srec' = lv_style_reset(srec, style[d].rec)
            /\ style' = lv_style_init([style EXCEPT ![d] = [@ EXCEPT !.rec = style[s].rec]], s)
            /\ calls' = <<Call("lv_style_reset", d), Call("lv_style_init", s)>>
       ELSE UNCHANGED <<srec, style>> /\ calls' = <<>>
    /\ op' = StyleOp("operator=(&&)", d, s, d)
    /\ StyleFrame

\* a reset() that only initialises the style again
Style_reset_InitOnly(i) ==
    /\ style[i].st = "live"
    /\ style' = lv_style_init(style, i)
    /\ op' = StyleOp("reset", i, 0, i)
    /\ calls' = <<Call("lv_style_init", i)>>
    /\ UNCHANGED srec /\ StyleFrame

\* Style& reset() noexcept { lv_style_reset(&m_style); lv_style_init(&m_style); return *this; }
Style_reset(i) ==
    /\ style[i].st = "live"
    /\ srec' = lv_style_reset(srec, style[i].rec)
    /\ style' = lv_style_init(style, i)
    /\ op' = StyleOp("reset", i, 0, i)
    /\ calls' = <<Call("lv_style_reset", i), Call("lv_style_init", i)>>
    /\ StyleFrame

\* Style& bg_color(lv_color_t color) noexcept
\*   { lv_style_set_bg_color(&m_style, color); return *this; }
\* and every other property setter of Style
Style_set(i, p, v) ==
    /\ style[i].st = "live"
    /\ \E r \in Recs : lv_style_set_prop(i, p, v, r)
    /\ op' = StyleOp("set", i, 0, i)
    /\ calls' = <<Call("lv_style_set_prop", i)>>
    /\ StyleFrame

NextStyles ==
    \/ \E i \in Styles : Style_ctor(i)
    \/ \E i \in Styles : Style_dtor(i)
    \/ \E d \in Styles, s \in Styles : Style_move_ctor(d, s)
    \/ \E d \in Styles, s \in Styles : Style_move_assign(d, s)
    \/ \E i \in Styles : Style_reset(i)
    \/ \E i \in Styles, p \in PropNames, v \in Bits : Style_set(i, p, v)

SpecStyle == Init /\ [][NextStyles]_vars

\* what lv_style_get_prop would report of style i, given the styles and records
PropsOf(st, sr, i) == IF st[i].rec = 0 THEN NoProps ELSE sr[st[i].rec].props
\* what a freshly default-constructed Style is
FreshStyle == [st |-> "live", rec |-> 0]

\* C12: a default-constructed Style has no property set; after reset() the
\* Style has none either, is in every field what a fresh Style is, and the
\* record that held its properties has been freed.
C12_ResetIsFresh ==
    [][/\ op'.name = "Style" =>
            style'[op'.self] = FreshStyle /\ PropsOf(style', srec', op'.self) = NoProps
       /\ op'.name = "reset" =>
            /\ style'[op'.self] = FreshStyle
            /\ PropsOf(style', srec', op'.self) = NoProps
            /\ op'.pre # 0 => srec'[op'.pre].st = "freed"]_vars

\* reset() of a Style on which both properties had been set
C12_Witness ==
    /\ op.name = "reset" /\ op.pre # 0
    /\ \A p \in PropNames : srec[op.pre].props[p] # Unset
    /\ style[op.self] = FreshStyle

AllStylesGone == \A i \in Styles : style[i].st # "live"
\* no record is freed twice, and once no Style is left none is still allocated
RecordsFreedOnce ==
    /\ \A r \in Recs : srec[r].frees <= 1
    /\ AllStylesGone => \A r \in Recs : srec[r].st # "live"
StyleMoves == {"Style(&&)", "operator=(&&)"}

\* C13: a Style move (construction or assignment from another Style) gives the
\* destination the source's property record, untouched, and leaves the source
\* a fresh empty Style; move assignment first frees the record the destination
\* had; self-assignment changes nothing; over any run no record is freed twice
\* and none is left allocated once every Style is destroyed.
C13_StyleMove ==
    [][/\ (op'.name \in StyleMoves /\ op'.self # op'.other) =>
            /\ style'[op'.self] = [st |-> "live", rec |-> style[op'.other].rec]
            /\ style'[op'.other] = FreshStyle
            /\ style[op'.other].rec # 0 =>
                 srec'[style[op'.other].rec] = srec[style[op'.other].rec]
       /\ (op'.name = "operator=(&&)" /\ op'.self # op'.other /\ style[op'.self].rec # 0) =>
            /\ srec'[style[op'.self].rec].st = "freed"
            /\ calls'[1] = Call("lv_style_reset", op'.self)
       /\ (op'.name = "operator=(&&)" /\ op'.self = op'.other) =>
            calls' = <<>> /\ UNCHANGED <<style, srec>>
       /\ RecordsFreedOnce']_vars

\* a move assignment between two Styles that both held a record
C13_Witness ==
    /\ op.name = "operator=(&&)" /\ op.self # op.other
    /\ op.pre # 0 /\ op.opre # 0
    /\ srec[op.pre].st = "freed" /\ srec[op.opre].st = "live"
    /\ style[op.self].rec = op.opre /\ style[op.other].rec = 0

\* ------------------------------------------------------------------ ObjectMixin / StyleMixin
\* mutators of ObjectMixin (size .. user_data) and of StyleMixin (bg_color ..)
ObjectMutators == {"size", "width", "visible", "clickable", "add_flag", "user_data"}
StyleMutators ==
    {"bg_color", "padding", "pad_right", "padding_hor", "padding_ver", "gap",
     "transform_pivot", "margin", "margin_top", "margin_hor", "margin_ver", "part_size"}
Mutators == ObjectMutators \cup StyleMutators

\* the engine functions mutator m calls, in order; b is its bool argument
Forwarded(m, b) ==
    CASE m = "size"            -> <<"lv_obj_set_size">>
      [] m = "width"           -> <<"lv_obj_set_width">>
      [] m = "visible"         -> IF b THEN <<"lv_obj_remove_flag">> ELSE <<"lv_obj_add_flag">>
      [] m = "clickable"       -> IF b THEN <<"lv_obj_add_flag">> ELSE <<"lv_obj_remove_flag">>
      [] m = "add_flag"        -> <<"lv_obj_add_flag">>
      [] m = "user_data"       -> <<"lv_obj_set_user_data">>
      [] m = "bg_color"        -> <<"lv_obj_set_style_bg_color">>
      [] m = "padding"         -> <<"lv_obj_set_style_pad_all">>
      [] m = "pad_right"       -> <<"lv_obj_set_style_pad_right">>
      [] m = "padding_hor"     -> <<"lv_obj_set_style_pad_left", "lv_obj_set_style_pad_right">>
      [] m = "padding_ver"     -> <<"lv_obj_set_style_pad_top", "lv_obj_set_style_pad_bottom">>
      [] m = "gap"             -> <<"lv_obj_set_style_pad_row", "lv_obj_set_style_pad_column">>
      [] m = "transform_pivot" -> <<"lv_obj_set_style_transform_pivot_x",
                                    "lv_obj_set_style_transform_pivot_y">>
      [] m = "margin"          -> <<"lv_obj_set_style_margin_top", "lv_obj_set_style_margin_bottom",
                                    "lv_obj_set_style_margin_left", "lv_obj_set_style_margin_right">>
      [] m = "margin_top"      -> <<"lv_obj_set_style_margin_top">>
      [] m = "margin_hor"      -> <<"lv_obj_set_style_margin_left", "lv_obj_set_style_margin_right">>
      [] m = "margin_ver"      -> <<"lv_obj_set_style_margin_top", "lv_obj_set_style_margin_bottom">>
      [] m = "part_size"       -> <<"lv_obj_set_style_width", "lv_obj_set_style_height">>

\* a mutator that checks its handle and does nothing on a null one
Mixin_Guarded(v, m, b) ==
    /\ Running /\ LiveView(v) /\ m \in Mutators
    /\ IF view[v].m_obj = NULL
       THEN EngineIdle /\ calls' = <<>>
       ELSE /\ EngineRead(view[v].m_obj)
            /\ calls' = [i \in 1..Len(Forwarded(m, b)) |-> Call(Forwarded(m, b)[i], view[v].m_obj)]
    /\ op' = Op(m, v, 0, view[v].m_obj, NULL, v)
    /\ UNCHANGED <<hnd, view, released>>
    /\ UNCHANGED drawVars
    /\ UNCHANGED libVars

\* Derived& size(int32_t w, int32_t h) noexcept
\*   { lv_obj_set_size(obj(), w, h); return *static_cast<Derived*>(this); }
\* and every other mutator: obj() is the facade's get(), forwarded as it is; the
\* reference returned designates the facade the mutator was called on
Mixin(v, m, b) ==
    /\ Running /\ LiveView(v) /\ m \in Mutators
    /\ EngineRead(view[v].m_obj)
    /\ calls' = [i \in 1..Len(Forwarded(m, b)) |-> Call(Forwarded(m, b)[i], view[v].m_obj)]
    /\ op' = Op(m, v, 0, view[v].m_obj, NULL, v)
    /\ UNCHANGED <<hnd, view, released>>
    /\ UNCHANGED drawVars
    /\ UNCHANGED libVars

NextMixin ==
    \/ \E v \in Views, p \in LivePtrs \cup {NULL} : FacadeCreate(v, p)
    \/ \E v \in Views, p \in LivePtrs \cup {NULL} : ViewWrap(v, p)
    \/ \E v \in Views, m \in Mutators, b \in BOOLEAN : Mixin(v, m, b)
    \/ \E v \in Views : ViewDel(v)
    \/ \E v \in Views : ViewDtor(v)

\* widget facades and the mutators their mixins give them
SpecMixin == Init /\ [][NextMixin]_vars

\* every mutator makes exactly one engine call
C14_OneCallEach == [][op'.name \in Mutators => Len(calls') = 1]_vars

\* the shorthands that set several properties at once
TwoCallMutators ==
    {"padding_hor", "padding_ver", "gap", "transform_pivot", "margin_hor", "margin_ver",
     "part_size"}
CallsOf(m) == IF m = "margin" THEN 4 ELSE IF m \in TwoCallMutators THEN 2 ELSE 1

\* C14: a mutator forwards one engine call, each on the facade's handle as it
\* is (null included) and whatever the arguments; the shorthands forward one
\* call per property they set: two for padding_hor, padding_ver, gap,
\* transform_pivot, margin_hor, margin_ver and part_size, four for margin.
C14_CallsPerMutator ==
    [][op'.name \in Mutators =>
         /\ Len(calls') = CallsOf(op'.name)
         /\ \A i \in 1..Len(calls') : calls'[i].arg = view[op'.self].m_obj
         /\ UNCHANGED view]_vars

\* margin() on a facade of a live widget: four calls, one per side
C14_Witness ==
    /\ op.name = "margin" /\ Len(calls) = 4
    /\ Fresh(view[op.self].m_obj)
    /\ calls[4] = Call("lv_obj_set_style_margin_right", view[op.self].m_obj)

\* ------------------------------------------------------------------ DrawBuf
\* ret: the object a returned reference designates, or the value returned;
\* eng: what the engine call returned (0: no engine call returned a value)
BufOp(n, i, o, r, e) ==
    [name |-> n, self |-> i, other |-> o, ret |-> r, eng |-> e,
     pre |-> IF i = 0 THEN 0 ELSE dbuf[i].m_buf, opre |-> IF o = 0 THEN 0 ELSE dbuf[o].m_buf]
BufFrame ==
    /\ UNCHANGED <<obj, at, delCalls, fault, hnd, view, released>>
    /\ UNCHANGED <<dsc, lstate, pending, dispatched, given, areaOut>>
    /\ UNCHANGED <<layer, style, srec, ui>>

NextDrawBuf(i) == dbuf[i].st = "none" /\ \A k \in DrawBufs : k < i => dbuf[k].st # "none"
NextBuf(b) == ebuf[b].st = "none" /\ \A k \in Bufs : k < b => ebuf[k].st # "none"
LiveBuf(i) == dbuf[i].st = "live"

\* engine, a buffer allocated for `who` (lv_draw_buf_create, lv_draw_buf_dup)
lv_draw_buf_create(eb, b, who) ==
    IF b = 0 THEN eb ELSE [eb EXCEPT ![b] = [st |-> "live", by |-> who, destroys |-> 0]]

\* engine, lv_draw_buf_destroy(buf): the buffer is freed (again, if it was already)
lv_draw_buf_destroy(eb, b) ==
    [eb EXCEPT ![b] = [@ EXCEPT !.st = "destroyed", !.destroys = @ + 1]]

\* DrawBuf(w, h, cf, stride) : m_buf(lv_draw_buf_create(w, h, cf, stride));
\* b = 0 is the engine failing to allocate
DrawBuf_ctor(i, b) ==
    /\ NextDrawBuf(i)
    /\ IF b = 0 THEN TRUE ELSE NextBuf(b)
    /\ ebuf' = lv_draw_buf_create(ebuf, b, "DrawBuf")
    /\ dbuf' = [dbuf EXCEPT ![i] = [st |-> "live", m_buf |-> b]]
    /\ op' = BufOp("DrawBuf", i, 0, 0, b)
    /\ calls' = <<Call("lv_draw_buf_create", 0)>>
    /\ BufFrame

\* DrawBuf(wrap_t, lv_draw_buf_t* buf) : m_buf(buf); buf is a buffer the caller
\* has just created itself, one it got from some DrawBuf's get(), or null
DrawBuf_wrap(i, b) ==
    /\ NextDrawBuf(i)
    /\ IF b = 0 THEN UNCHANGED ebuf
       ELSE IF ebuf[b].st = "none"
            THEN NextBuf(b) /\ ebuf' = lv_draw_buf_create(ebuf, b, "caller")
            ELSE ebuf[b].st = "live" /\ UNCHANGED ebuf
    /\ dbuf' = [dbuf EXCEPT ![i] = [st |-> "live", m_buf |-> b]]
    /\ op' = BufOp("DrawBuf(wrap)", i, 0, 0, 0)
    /\ calls' = <<>>
    /\ BufFrame

\* ~DrawBuf() { if (m_buf) lv_draw_buf_destroy(m_buf); }
DrawBuf_dtor(i) ==
    /\ LiveBuf(i)
    /\ IF dbuf[i].m_buf # 0
       THEN /\ ebuf' = lv_draw_buf_destroy(ebuf, dbuf[i].m_buf)
            /\ calls' = <<Call("lv_draw_buf_destroy", dbuf[i].m_buf)>>
       ELSE UNCHANGED ebuf /\ calls' = <<>>
    /\ dbuf' = [dbuf EXCEPT ![i] = [st |-> "dead", m_buf |-> 0]]
    /\ op' = BufOp("~DrawBuf", i, 0, 0, 0)
    /\ BufFrame

\* DrawBuf(DrawBuf&& other) : m_buf(other.m_buf) { other.m_buf = nullptr; }
DrawBuf_move_ctor(d, s) ==
    /\ NextDrawBuf(d) /\ LiveBuf(s)
    /\ dbuf' = [dbuf EXCEPT ![d] = [st |-> "live", m_buf |-> dbuf[s].m_buf],
                            ![s] = [@ EXCEPT !.m_buf = 0]]
    /\ op' = BufOp("DrawBuf(&&)", d, s, 0, 0)
    /\ calls' = <<>>
    /\ UNCHANGED ebuf /\ BufFrame

\* DrawBuf& operator=(DrawBuf&& other) {
\*   if (this != &other) { if (m_buf) lv_draw_buf_destroy(m_buf);
\*                         m_buf = other.m_buf; other.m_buf = nullptr; }
\*   return *this; }
DrawBuf_move_assign(d, s) ==
    /\ LiveBuf(d) /\ LiveBuf(s)
    /\ IF d # s
       THEN /\ IF dbuf[d].m_buf # 0
               THEN /\ ebuf' = lv_draw_buf_destroy(ebuf, dbuf[d].m_buf)
                    /\ calls' = <<Call("lv_draw_buf_destroy", dbuf[d].m_buf)>>
               ELSE UNCHANGED ebuf /\ calls' = <<>>
            /\ dbuf' = [dbuf EXCEPT ![d] = [@ EXCEPT !.m_buf = dbuf[s].m_buf],
                                    ![s] = [@ EXCEPT !.m_buf = 0]]
       ELSE UNCHANGED <<ebuf, dbuf>> /\ calls' = <<>>
    /\ op' = BufOp("operator=(&&)", d, s, d, 0)
    /\ BufFrame

BufSetters ==
    {"clear", "set_palette", "invalidate_cache", "flush_cache", "premultiply",
     "set_flag", "clear_flag"}

\* DrawBuf& clear(const lv_area_t* area = nullptr)
\*   { if (m_buf) { lv_draw_buf_clear(m_buf, area); } return *this; }
\* and set_palette, invalidate_cache, flush_cache, premultiply, set_flag, clear_flag
DrawBuf_setter(i, m) ==
    /\ LiveBuf(i) /\ m \in BufSetters
    /\ calls' = IF dbuf[i].m_buf # 0 THEN <<Call(m, dbuf[i].m_buf)>> ELSE <<>>
    /\ op' = BufOp(m, i, 0, i, 0)
    /\ UNCHANGED <<dbuf, ebuf>> /\ BufFrame

\* bool has_flag(flag) const { return m_buf && lv_draw_buf_has_flag(m_buf, flag); }
\* (goto_xy and reshape are guarded the same way; width() .. data_size() read
\* the header of a non-null buffer themselves)
DrawBuf_has_flag(i, r) ==
    /\ LiveBuf(i) /\ r \in BOOLEAN
    /\ calls' = IF dbuf[i].m_buf # 0 THEN <<Call("has_flag", dbuf[i].m_buf)>> ELSE <<>>
    /\ op' = BufOp("has_flag", i, 0, IF dbuf[i].m_buf # 0 THEN r ELSE FALSE,
                   IF dbuf[i].m_buf # 0 THEN r ELSE 0)
    /\ UNCHANGED <<dbuf, ebuf>> /\ BufFrame

\* static DrawBuf duplicate(const DrawBuf& src)
\*   { if (!src.m_buf) return DrawBuf{}; return DrawBuf(wrap, lv_draw_buf_dup(src.m_buf)); }
\* (create_ex wraps the result of lv_draw_buf_create_ex the same way)
DrawBuf_duplicate(n, s, b) ==
    /\ NextDrawBuf(n) /\ LiveBuf(s)
    /\ IF dbuf[s].m_buf = 0
       THEN /\ b = 0 /\ UNCHANGED ebuf /\ calls' = <<>>
       ELSE /\ IF b = 0 THEN TRUE ELSE NextBuf(b)
            /\ ebuf' = lv_draw_buf_create(ebuf, b, "dup")
            /\ calls' = <<Call("lv_draw_buf_dup", dbuf[s].m_buf)>>
    /\ dbuf' = [dbuf EXCEPT ![n] = [st |-> "live", m_buf |-> b]]
    /\ op' = BufOp("duplicate", n, s, 0, b)
    /\ BufFrame

NextBufs ==
    \/ \E i \in DrawBufs, b \in Bufs \cup {0} : DrawBuf_ctor(i, b)
    \/ \E i \in DrawBufs, b \in Bufs \cup {0} : DrawBuf_wrap(i, b)
    \/ \E i \in DrawBufs : DrawBuf_dtor(i)
    \/ \E d \in DrawBufs, s \in DrawBufs : DrawBuf_move_ctor(d, s)
    \/ \E d \in DrawBufs, s \in DrawBufs : DrawBuf_move_assign(d, s)
    \/ \E n \in DrawBufs, s \in DrawBufs, b \in Bufs \cup {0} : DrawBuf_duplicate(n, s, b)
    \/ \E i \in DrawBufs, m \in BufSetters : DrawBuf_setter(i, m)
    \/ \E i \in DrawBufs, r \in BOOLEAN : DrawBuf_has_flag(i, r)

\* DrawBuf objects: construction, wrapping, duplication, moves, destruction
SpecBuf == Init /\ [][NextBufs]_vars

\* ------------------------------------------------------------------ chaining
\* the kinds of builder, and a kind of which no builder has been made yet
Builders == {"views", "styles", "dscs", "layer", "bufs"}
Idle(k) ==
    CASE k = "views"  -> \A v \in Views : view[v].st = "none"
      [] k = "styles" -> \A i \in Styles : style[i].st = "none"
      [] k = "dscs"   -> \A d \in Dscs : dsc[d].st = "none"
      [] k = "layer"  -> layer = lv_layer_init
      [] k = "bufs"   -> \A i \in DrawBufs : dbuf[i].st = "none"
\* one kind of builder is built at a time
Only(k) == \A x \in Builders \ {k} : Idle(x)

\* the calls that return a reference for chaining
ChainableOps ==
    Mutators \cup BufSetters \cup
    {"user_data", "set", "reset", "init_with_parent", "opa", "all_tasks_added", "recolor"}

\* a facade, a Style, a descriptor, the Layer or a DrawBuf is created and a
\* chain of setters is called on it
NextChain ==
    \/ Only("views") /\ \E v \in Views, p \in LivePtrs \cup {NULL} : FacadeCreate(v, p)
    \/ Only("views") /\ \E v \in Views, m \in Mutators, b \in BOOLEAN : Mixin(v, m, b)
    \/ Only("views") /\ \E v \in Views, d \in UserData : ViewUserData(v, d)
    \/ Only("styles") /\ \E i \in Styles : Style_ctor(i)
    \/ Only("styles") /\ \E i \in Styles, p \in PropNames, v \in Bits : Style_set(i, p, v)
    \/ Only("styles") /\ \E i \in Styles : Style_reset(i)
    \/ Only("dscs") /\ \E d \in Dscs, k \in Kinds : DscCtor(d, k)
    \/ Only("dscs") /\ \E d \in Dscs, x \in Vals : DscSet(d, x)
    \/ Only("layer") /\ \E x \in Bits : Layer_opa(x)
    \/ Only("layer") /\ \E x \in Bits : Layer_user_data(x)
    \/ Only("layer") /\ \E b \in BOOLEAN : Layer_all_tasks_added(b)
    \/ Only("layer") /\ \E x \in Bits : Layer_recolor(x)
    \/ Only("layer") /\ Layer_reset
    \/ Only("layer") /\ \E a \in LayerAreas : Layer_init_with_parent(a)
    \/ Only("bufs") /\ \E i \in DrawBufs, b \in Bufs \cup {0} : DrawBuf_ctor(i, b)
    \/ Only("bufs") /\ \E i \in DrawBufs, m \in BufSetters : DrawBuf_setter(i, m)

\* builders and the setter chains called on them
SpecChain == Init /\ [][NextChain]_vars

\* C15: every chainable setter (of ObjectMixin, StyleMixin, ObjectView, Style,
\* the draw descriptors, Layer and DrawBuf) returns a reference to the very
\* object it was invoked on, and leaves that object holding the handle it held,
\* so that the next call of the chain reaches the same object and handle.
C15_ChainReturnsSelf ==
    [][op'.name \in ChainableOps =>
         /\ op'.ret = op'.self
         /\ view' = view
         /\ \A i \in DrawBufs : dbuf'[i].m_buf = dbuf[i].m_buf]_vars

\* a mixin setter called on a facade of a live widget has returned that facade,
\* a second facade existing beside it
C15_Witness ==
    /\ op.name = "size" /\ op.self = 2 /\ op.ret = 2
    /\ LiveView(1) /\ LiveView(2) /\ Fresh(view[2].m_obj)
    /\ view[1].m_obj # view[2].m_obj

\* ------------------------------------------------------------------ null wrappers
\* the member operations of ObjectView (construction and destruction apart)
ViewMemberOps == {"user_data", "has_flag", "parent", "child", "del", "clean"}

\* C16: an operation invoked on a view whose handle is null forwards no call to
\* the engine and raises nothing (the program does not stop on a null pointer).
C16_NullViewIsNoOp ==
    [][(op'.name \in ViewMemberOps /\ op'.pre = NULL) =>
         (calls' = <<>> /\ fault' = fault)]_vars

\* ------------------------------------------------------------------ result codes
\* lv_result_t, and the mark of no engine call having returned one
Results == {"LV_RESULT_OK", "LV_RESULT_INVALID"}
NoResult == "none"

\* bool Barcode::data(const char* text)
\*   { return lv_barcode_update(m_obj, text) == LV_RESULT_OK; }
Barcode_data(v, res) ==
    /\ Running /\ LiveView(v)
    /\ EngineRead(view[v].m_obj)
    /\ calls' = <<Call("lv_barcode_update", view[v].m_obj)>>
    /\ op' = Op("data", v, 0, view[v].m_obj, NULL, res = "LV_RESULT_OK") @@ [eng |-> res]
    /\ UNCHANGED <<hnd, view, released>>
    /\ UNCHANGED drawVars
    /\ UNCHANGED libVars

\* bool QRCode::update(const void* data, uint32_t len)
\*   { return lv_qrcode_update(m_obj, data, len) == LV_RESULT_OK; }
QRCode_update(v, res) ==
    /\ Running /\ LiveView(v)
    /\ EngineRead(view[v].m_obj)
    /\ calls' = <<Call("lv_qrcode_update", view[v].m_obj)>>
    /\ op' = Op("update", v, 0, view[v].m_obj, NULL, res = "LV_RESULT_OK") @@ [eng |-> res]
    /\ UNCHANGED <<hnd, view, released>>
    /\ UNCHANGED drawVars
    /\ UNCHANGED libVars

\* an adjust_stride that reports success whatever the engine said
DrawBuf_adjust_stride_AlwaysOk(i, res) ==
    /\ LiveBuf(i)
    /\ IF dbuf[i].m_buf # 0
       THEN /\ calls' = <<Call("lv_draw_buf_adjust_stride", dbuf[i].m_buf)>>
            /\ op' = BufOp("adjust_stride", i, 0, "LV_RESULT_OK", res)
       ELSE /\ calls' = <<>>
            /\ op' = BufOp("adjust_stride", i, 0, "LV_RESULT_INVALID", NoResult)
    /\ UNCHANGED <<dbuf, ebuf>> /\ BufFrame

\* lv_result_t adjust_stride(uint32_t stride)
\*   { if (m_buf) { return lv_draw_buf_adjust_stride(m_buf, stride); }
\*     return LV_RESULT_INVALID; }
DrawBuf_adjust_stride(i, res) ==
    /\ LiveBuf(i)
    /\ IF dbuf[i].m_buf # 0
       THEN /\ calls' = <<Call("lv_draw_buf_adjust_stride", dbuf[i].m_buf)>>
            /\ op' = BufOp("adjust_stride", i, 0, res, res)
       ELSE /\ calls' = <<>>
            /\ op' = BufOp("adjust_stride", i, 0, "LV_RESULT_INVALID", NoResult)
    /\ UNCHANGED <<dbuf, ebuf>> /\ BufFrame

\* lv_result_t from_image(const lv_image_dsc_t* img)
\*   { if (m_buf && img) { return lv_draw_buf_from_image(m_buf, img); }
\*     return LV_RESULT_INVALID; }
\* img: whether the descriptor pointer given is non-null
DrawBuf_from_image(i, img, res) ==
    /\ LiveBuf(i)
    /\ IF dbuf[i].m_buf # 0 /\ img
       THEN /\ calls' = <<Call("lv_draw_buf_from_image", dbuf[i].m_buf)>>
            /\ op' = BufOp("from_image", i, 0, res, res) @@ [img |-> img]
       ELSE /\ calls' = <<>>
            /\ op' = BufOp("from_image", i, 0, "LV_RESULT_INVALID", NoResult) @@ [img |-> img]
    /\ UNCHANGED <<dbuf, ebuf>> /\ BufFrame

NextResult ==
    \/ \E v \in Views, p \in LivePtrs \cup {NULL} : FacadeCreate(v, p)
    \/ \E v \in Views, res \in Results : Barcode_data(v, res)
    \/ \E v \in Views, res \in Results : QRCode_update(v, res)
    \/ \E i \in DrawBufs, b \in Bufs \cup {0} : DrawBuf_ctor(i, b)
    \/ \E i \in DrawBufs, res \in Results : DrawBuf_adjust_stride(i, res)
    \/ \E i \in DrawBufs, img \in BOOLEAN, res \in Results : DrawBuf_from_image(i, img, res)

\* the operations that hand an engine result back to the caller
SpecResult == Init /\ [][NextResult]_vars

\* what the bool-returning wrappers owe: true exactly when the engine said OK
BoolPassThrough ==
    (op'.name \in {"data", "update"} /\ fault' # "null") =>
        (op'.ret <=> op'.eng = "LV_RESULT_OK")

\* C17 (as stated): adjust_stride and from_image on a non-null buffer return
\* exactly the result the engine returned
C17_PassThroughOnNonNull ==
    [][/\ BoolPassThrough
       /\ (op'.name \in {"adjust_stride", "from_image"} /\ op'.pre # 0) =>
            (op'.eng \in Results /\ op'.ret = op'.eng)]_vars

\* C17: Barcode::data and QRCode::update return true exactly when the engine
\* call returned LV_RESULT_OK; DrawBuf::adjust_stride on a non-null buffer, and
\* DrawBuf::from_image on a non-null buffer given a non-null image descriptor,
\* make one engine call and return exactly its result; from_image given a null
\* descriptor makes no engine call and returns LV_RESULT_INVALID.
C17_PassThrough ==
    [][/\ BoolPassThrough
       /\ (op'.name = "adjust_stride" /\ op'.pre # 0) =>
            (Len(calls') = 1 /\ op'.eng \in Results /\ op'.ret = op'.eng)
       /\ (op'.name = "from_image" /\ op'.pre # 0 /\ op'.img) =>
            (Len(calls') = 1 /\ op'.eng \in Results /\ op'.ret = op'.eng)
       /\ (op'.name = "from_image" /\ ~op'.img) =>
            (calls' = <<>> /\ op'.ret = "LV_RESULT_INVALID")]_vars

\* the engine refused an image descriptor given to a DrawBuf holding a buffer,
\* and the caller was told so
C17_Witness ==
    /\ op.name = "from_image" /\ op.pre # 0 /\ op.img
    /\ op.eng = "LV_RESULT_INVALID" /\ op.ret = "LV_RESULT_INVALID"
    /\ Len(calls) = 1

\* ------------------------------------------------------------------ properties of DrawBuf
\* the buffers a caller created itself and handed to a wrapping DrawBuf
WrappedBufs == {b \in Bufs : ebuf[b].by = "caller"}
\* the buffers the DrawBuf(w, h, cf, stride) constructor created
OwnedBufs == {b \in Bufs : ebuf[b].by = "DrawBuf"}
AllDrawBufsGone == \A i \in DrawBufs : dbuf[i].st # "live"
DestroyCalls == {i \in 1..Len(calls') : calls'[i].fn = "lv_draw_buf_destroy"}

\* C18: no DrawBuf operation (destruction, move-assignment, or either of them
\* after moves) calls lv_draw_buf_destroy on a buffer that was handed to
\* DrawBuf(DrawBuf::wrap, buf).
C18_WrapIsNonOwning == \A b \in WrappedBufs : ebuf[b].destroys = 0

\* C20: lv_draw_buf_destroy reaches each buffer the DrawBuf(w, h, cf, stride)
\* constructor created at most once, and exactly once by the time every DrawBuf
\* is destroyed; it is never called with a null pointer; a moved-from DrawBuf
\* is null; move-assignment destroys the destination's previous buffer, once,
\* and nothing else; self-move-assignment destroys nothing.
C20_DestroyedExactlyOnce ==
    [][/\ \A b \in OwnedBufs : ebuf'[b].destroys <= 1
       /\ AllDrawBufsGone' => \A b \in OwnedBufs : ebuf'[b].destroys = 1
       /\ \A i \in DestroyCalls : calls'[i].arg # 0
       /\ (op'.name \in {"DrawBuf(&&)", "operator=(&&)"} /\ op'.self # op'.other) =>
            dbuf'[op'.other].m_buf = 0
       /\ (op'.name = "operator=(&&)" /\ op'.self # op'.other) =>
            /\ Cardinality(DestroyCalls) = IF op'.pre = 0 THEN 0 ELSE 1
            /\ \A i \in DestroyCalls : calls'[i].arg = op'.pre
       /\ (op'.name = "operator=(&&)" /\ op'.self = op'.other) =>
            (DestroyCalls = {} /\ dbuf' = dbuf)]_vars

\* ------------------------------------------------------------------ object layout
\* the wrapper classes, by what the class definitions declare
Classes ==
    {"ObjectView", "Object", "Box", "Button", "Canvas", "Image", "Barcode", "QRCode",
     "DrawTaskView", "DrawBuf", "DrawBufView", "Style",
     "ObjectMixin", "EventMixin", "StyleMixin"}

\* the base classes of a class, in declaration order
Bases(c) ==
    CASE c = "Object" -> <<"ObjectView">>
      [] c \in {"Box", "Button", "Canvas", "Image"} ->
            <<"ObjectView", "ObjectMixin", "EventMixin", "StyleMixin">>
      [] c \in {"Barcode", "QRCode"} -> <<"ObjectView", "EventMixin", "StyleMixin">>
      [] OTHER -> <<>>

\* the types of the non-static data members a class declares itself
Members(c) ==
    CASE c = "ObjectView"   -> <<"lv_obj_t*">>
      [] c = "DrawTaskView" -> <<"lv_draw_task_t*">>
      [] c = "DrawBuf"      -> <<"lv_draw_buf_t*">>
      [] c = "DrawBufView"  -> <<"lv_draw_buf_t">>
      [] c = "Style"        -> <<"lv_style_t">>
      [] OTHER -> <<>>

\* the targets built for: the width of a pointer and the size of lv_style_t,
\* both in bytes
PtrSizes == {2, 4, 8}
Targets == {[ptr |-> p, style_t |-> k * p] : p \in PtrSizes, k \in 2..4}

\* engine, lv_draw_buf_t: an image header, the data size and three pointers
\* (data, unaligned_data, handlers)
SizeofDrawBufT(t) == 16 + 3 * t.ptr

TypeSize(ty, t) ==
    CASE ty = "lv_style_t"    -> t.style_t
      [] ty = "lv_draw_buf_t" -> SizeofDrawBufT(t)
      [] OTHER -> t.ptr

RECURSIVE SumTypes(_, _)
SumTypes(types, t) ==
    IF types = <<>> THEN 0 ELSE TypeSize(Head(types), t) + SumTypes(Tail(types), t)

\* no class has a virtual function; an empty base class takes no room in a
\* derived object, an object of its own takes one byte
RECURSIVE Storage(_, _), SumBases(_, _)
SumBases(bases, t) ==
    IF bases = <<>> THEN 0 ELSE Storage(Head(bases), t) + SumBases(Tail(bases), t)
Storage(c, t) == SumBases(Bases(c), t) + SumTypes(Members(c), t)
Sizeof(c, t) == IF Storage(c, t) = 0 THEN 1 ELSE Storage(c, t)

\* sizeof(c) evaluated for a build target, as the static_asserts do
SizeofQuery(c, t) ==
    /\ op' = [name |-> "sizeof", self |-> c, ret |-> Sizeof(c, t), target |-> t]
    /\ calls' = <<>>
    /\ UNCHANGED <<obj, at, delCalls, fault, hnd, view, released>>
    /\ UNCHANGED drawVars
    /\ UNCHANGED libVars

NextLayout == \E c \in Classes, t \in Targets : SizeofQuery(c, t)

\* the sizes of the wrapper classes over the build targets
SpecLayout == Init /\ [][NextLayout]_vars

\* the non-owning view types
ViewTypes ==
    {"ObjectView", "Box", "Button", "Canvas", "Image", "Barcode", "QRCode",
     "DrawTaskView", "DrawBufView"}

\* C19: sizeof of every non-owning view type, and of Object, equals
\* sizeof(void*); sizeof(Style) equals sizeof(lv_style_t).
C19_PointerSized ==
    op.name = "sizeof" =>
        /\ op.self \in ViewTypes \cup {"Object"} => op.ret = op.target.ptr
        /\ op.self = "Style" => op.ret = op.target.style_t

\* ------------------------------------------------------------------ Object::reset
\* a reset that takes the new pointer and forgets the widget held
ObjectReset_NoDelete(h, p) ==
    /\ Running /\ hnd[h].st = "live"
    /\ EngineIdle /\ calls' = <<>>
    /\ hnd' = [hnd EXCEPT ![h] = [@ EXCEPT !.m_obj = p]]
    /\ op' = Op("reset", h, 0, hnd[h].m_obj, NULL, NULL) @@ [arg |-> p]
    /\ UNCHANGED <<view, released>>
    /\ UNCHANGED drawVars
    /\ UNCHANGED libVars

\* void reset(lv_obj_t* obj = nullptr)
\*   { if (m_obj) { lv_obj_delete(m_obj); } m_obj = obj; }
ObjectReset(h, p) ==
    /\ Running /\ hnd[h].st = "live"
    /\ IF hnd[h].m_obj # NULL
       THEN lv_obj_delete(hnd[h].m_obj) /\ calls' = <<Call("lv_obj_delete", hnd[h].m_obj)>>
       ELSE EngineIdle /\ calls' = <<>>
    /\ hnd' = [hnd EXCEPT ![h] = [@ EXCEPT !.m_obj = p]]
    /\ op' = Op("reset", h, 0, hnd[h].m_obj, NULL, NULL) @@ [arg |-> p]
    /\ UNCHANGED <<view, released>>
    /\ UNCHANGED drawVars
    /\ UNCHANGED libVars

\* how many lv_obj_delete calls on one widget are followed
MaxDel == 2
DelBounded == \A w \in Widgets : delCalls[w] < MaxDel

\* the pointers a caller of reset has at hand: null, that of any valid widget,
\* and the one the handle itself gives out with get()
NextReset ==
    \/ \E h \in Handles, p \in LivePtrs \cup {NULL} : ObjectCtor(h, p)
    \/ \E h \in Handles : ObjectDtor(h)
    \/ \E d \in Handles, s \in Handles : DelBounded /\ ObjectMoveAssign(d, s)
    \/ \E h \in Handles : \E p \in LivePtrs \cup {NULL, hnd[h].m_obj} :
          DelBounded /\ ObjectReset(h, p)

\* Object handles with reset
SpecReset == Init /\ [][NextReset]_vars

\* C21: reset(obj) calls lv_obj_delete, once and with the pointer the handle
\* held, exactly when that pointer is non-null, and leaves obj in the handle;
\* reset() (obj null) so leaves the handle null, and the destructor of a null
\* handle makes no engine call.
C21_ResetDeletesHeld ==
    [][/\ op'.name = "reset" =>
            /\ calls' = IF op'.pre # NULL THEN <<Call("lv_obj_delete", op'.pre)>> ELSE <<>>
            /\ op'.pre = hnd[op'.self].m_obj
            /\ hnd'[op'.self].m_obj = op'.arg
       /\ (op'.name = "~Object" /\ op'.pre = NULL) => (calls' = <<>> /\ obj' = obj)]_vars

\* a handle holding a valid widget was reset to another valid widget
C21_Witness ==
    /\ op.name = "reset" /\ op.pre # NULL /\ op.arg # NULL /\ op.arg # op.pre
    /\ hnd[op.self].m_obj = op.arg /\ Fresh(op.arg)
    /\ calls = <<Call("lv_obj_delete", op.pre)>>

\* the operations of an Object handle that can delete the widget it holds
DisposingOps == {"~Object", "reset", "operator=(&&)"}

\* C27: when the widget an Object handle holds has already been deleted by the
\* engine (its parent or an ancestor was deleted), the destruction, reset or
\* move-assignment of that handle passes no pointer to lv_obj_delete whose
\* widget is already deleted.
C27_NoDeleteOfDeleted ==
    [][(op'.name \in DisposingOps /\ calls' # <<>>) =>
         \A i \in 1..Len(calls') : Fresh(calls'[i].arg)]_vars

\* C28: after reset(p), p being the pointer of a valid widget, the handle
\* holds p and that widget is still valid, whatever p is: the pointer the
\* handle held before the call included.
C28_ResetKeepsArgument ==
    [][(op'.name = "reset" /\ Fresh(op'.arg)) =>
         /\ hnd'[op'.self].m_obj = op'.arg
         /\ FreshIn(obj', at', op'.arg)]_vars

\* ------------------------------------------------------------------ null DrawBuf, null DrawTaskView
HeaderFields == {"width", "height", "stride", "data_size"}
ColorFormats == {"LV_COLOR_FORMAT_UNKNOWN", "LV_COLOR_FORMAT_ARGB8888"}
PtrGetters == {"goto_xy", "reshape"}

\* uint32_t width() const { return m_buf ? m_buf->header.w : 0; }
\* and height, stride, data_size alike; x is what the buffer's header holds
DrawBuf_header(i, g, x) ==
    /\ LiveBuf(i) /\ g \in HeaderFields
    /\ op' = BufOp(g, i, 0, IF dbuf[i].m_buf # 0 THEN x ELSE 0, 0)
    /\ calls' = <<>>
    /\ UNCHANGED <<dbuf, ebuf>> /\ BufFrame

\* lv_color_format_t color_format() const
\*   { return m_buf ? static_cast<lv_color_format_t>(m_buf->header.cf)
\*                  : LV_COLOR_FORMAT_UNKNOWN; }
DrawBuf_color_format(i, cf) ==
    /\ LiveBuf(i) /\ cf \in ColorFormats
    /\ op' = BufOp("color_format", i, 0,
                   IF dbuf[i].m_buf # 0 THEN cf ELSE "LV_COLOR_FORMAT_UNKNOWN", 0)
    /\ calls' = <<>>
    /\ UNCHANGED <<dbuf, ebuf>> /\ BufFrame

\* uint8_t* data() const { return m_buf ? m_buf->data : nullptr; }
\* the data of buffer b is told from that of the others by b; 0 is nullptr
DrawBuf_data(i) ==
    /\ LiveBuf(i)
    /\ op' = BufOp("data", i, 0, dbuf[i].m_buf, 0)
    /\ calls' = <<>>
    /\ UNCHANGED <<dbuf, ebuf>> /\ BufFrame

\* a goto_xy that asks the engine whatever m_buf is
DrawBuf_ptr_Unguarded(i, g, ok) ==
    /\ LiveBuf(i) /\ g \in PtrGetters
    /\ calls' = <<Call(g, dbuf[i].m_buf)>>
    /\ op' = BufOp(g, i, 0, IF ok THEN dbuf[i].m_buf ELSE 0, 0)
    /\ UNCHANGED <<dbuf, ebuf>> /\ BufFrame

\* void* goto_xy(x, y) const { return m_buf ? lv_draw_buf_goto_xy(m_buf, x, y) : nullptr; }
\* lv_draw_buf_t* reshape(cf, w, h, stride)
\*   { if (m_buf) { return lv_draw_buf_reshape(m_buf, cf, w, h, stride); } return nullptr; }
\* ok: the engine returns a pointer into the buffer rather than null
DrawBuf_ptr(i, g, ok) ==
    /\ LiveBuf(i) /\ g \in PtrGetters
    /\ IF dbuf[i].m_buf # 0
       THEN /\ calls' = <<Call(g, dbuf[i].m_buf)>>
            /\ op' = BufOp(g, i, 0, IF ok THEN dbuf[i].m_buf ELSE 0, 0)
       ELSE /\ calls' = <<>>
            /\ op' = BufOp(g, i, 0, 0, 0)
    /\ UNCHANGED <<dbuf, ebuf>> /\ BufFrame

\* DrawBuf& copy(dest_area, const DrawBuf& src, src_area)
\*   { if (m_buf && src.m_buf) { lv_draw_buf_copy(m_buf, dest_area, src.m_buf, src_area); }
\*     return *this; }
DrawBuf_copy(d, s) ==
    /\ LiveBuf(d) /\ LiveBuf(s)
    /\ calls' = IF dbuf[d].m_buf # 0 /\ dbuf[s].m_buf # 0
                THEN <<Call("copy", dbuf[d].m_buf)>> ELSE <<>>
    /\ op' = BufOp("copy", d, s, d, 0)
    /\ UNCHANGED <<dbuf, ebuf>> /\ BufFrame

\* DrawBufs that hold a buffer and DrawBufs that do not (a failed allocation,
\* a moved-from DrawBuf), default-constructed task views, and their operations
NextNull ==
    \/ \E i \in DrawBufs, b \in Bufs \cup {0} : DrawBuf_ctor(i, b)
    \/ \E d \in DrawBufs, s \in DrawBufs : DrawBuf_move_ctor(d, s)
    \/ \E i \in DrawBufs, g \in HeaderFields, x \in Bits : DrawBuf_header(i, g, x)
    \/ \E i \in DrawBufs, cf \in ColorFormats : DrawBuf_color_format(i, cf)
    \/ \E i \in DrawBufs : DrawBuf_data(i)
    \/ \E i \in DrawBufs, g \in PtrGetters, ok \in BOOLEAN : DrawBuf_ptr(i, g, ok)
    \/ \E d \in DrawBufs, s \in DrawBufs : DrawBuf_copy(d, s)
    \/ \E i \in DrawBufs, m \in BufSetters : DrawBuf_setter(i, m)
    \/ \E i \in DrawBufs, r \in BOOLEAN : DrawBuf_has_flag(i, r)
    \/ \E i \in DrawBufs, res \in Results : DrawBuf_adjust_stride(i, res)
    \/ \E i \in DrawBufs, img \in BOOLEAN, res \in Results : DrawBuf_from_image(i, img, res)
    \/ \E n \in DrawBufs, s \in DrawBufs, b \in Bufs \cup {0} : DrawBuf_duplicate(n, s, b)
    \/ \E i \in TaskRefs : DrawTaskView_type(i)
    \/ \E i \in TaskRefs, b \in BOOLEAN : DrawTaskView_get_area(i, b)
    \/ \E i \in TaskRefs : DrawTaskView_draw_dsc(i)
    \/ \E i \in TaskRefs, k \in Kinds \ {"rect"} : DrawTaskView_typed_dsc(i, k)

SpecNull == Init /\ [][NextNull]_vars

\* what each value-returning DrawBuf operation returns when there is no buffer
BufNeutral(n) ==
    CASE n \in HeaderFields -> 0
      [] n \in PtrGetters \cup {"data"} -> 0
      [] n = "color_format" -> "LV_COLOR_FORMAT_UNKNOWN"
      [] n = "has_flag" -> FALSE
      [] n \in {"adjust_stride", "from_image"} -> "LV_RESULT_INVALID"
BufValueOps ==
    HeaderFields \cup PtrGetters \cup
    {"data", "color_format", "has_flag", "adjust_stride", "from_image"}

\* C22: on a DrawBuf holding no buffer and on a task view holding no task,
\* every operation makes no engine call and changes nothing; the
\* value-returning ones return their neutral value (0, null,
\* LV_COLOR_FORMAT_UNKNOWN, false, LV_RESULT_INVALID, LV_DRAW_TASK_TYPE_NONE),
\* and duplicate of a DrawBuf holding no buffer gives one holding none.
C22_NullIsNeutral ==
    [][/\ (op'.name \in BufValueOps /\ op'.pre = 0) =>
            /\ calls' = <<>> /\ UNCHANGED <<dbuf, ebuf>>
            /\ op'.ret = BufNeutral(op'.name)
       /\ (op'.name \in BufSetters \cup {"copy"} /\ op'.pre = 0) =>
            (calls' = <<>> /\ UNCHANGED <<dbuf, ebuf>>)
       /\ (op'.name = "duplicate" /\ op'.opre = 0) =>
            (calls' = <<>> /\ dbuf'[op'.self].m_buf = 0 /\ ebuf' = ebuf)
       /\ (op'.name \in TaskViewOps /\ op'.self = 0) =>
            /\ calls' = <<>> /\ UNCHANGED <<pending, areaOut>>
            /\ op'.name = "type" => op'.ret = "none"
            /\ op'.name \in {"draw_dsc", "typed_dsc"} => op'.ret = 0]_vars

\* reshape was called on a DrawBuf that gave its buffer away in a move, while
\* another DrawBuf holds that buffer
C22_Witness ==
    /\ op.name = "reshape" /\ op.pre = 0 /\ op.ret = 0 /\ calls = <<>>
    /\ \E j \in DrawBufs : LiveBuf(j) /\ dbuf[j].m_buf # 0

\* ------------------------------------------------------------------ area helpers
\* int32_t, scaled down: the values of a two's-complement integer of IntBits bits
IntBits == 3
IntMin == -(2 ^ (IntBits - 1))
IntMax == 2 ^ (IntBits - 1) - 1
Int32 == IntMin..IntMax
InInt(v) == IntMin <= v /\ v <= IntMax

\* a + b - 1 and a - b + 1 as the compiler evaluates them, left to right; a
\* signed overflow in either step is undefined: the result is then any value g
PlusMinusOne(a, b, g) == IF InInt(a + b) /\ InInt(a + b - 1) THEN a + b - 1 ELSE g
MinusPlusOne(a, b, g) == IF InInt(a - b) /\ InInt(a - b + 1) THEN a - b + 1 ELSE g

\* an area_from_size that takes x + w for the right edge
area_from_size_Exclusive(x, y, w, h, gx, gy) ==
    area(x, y, IF InInt(x + w) THEN x + w ELSE gx, IF InInt(y + h) THEN y + h ELSE gy)

\* lv_area_t area_from_size(x, y, w, h) { return lv_area_t{x, y, x + w - 1, y + h - 1}; }
area_from_size(x, y, w, h, gx, gy) ==
    area(x, y, PlusMinusOne(x, w, gx), PlusMinusOne(y, h, gy))

\* int32_t area_width(const lv_area_t& a) { return a.x2 - a.x1 + 1; }
area_width(a, g) == MinusPlusOne(a.x2, a.x1, g)
\* int32_t area_height(const lv_area_t& a) { return a.y2 - a.y1 + 1; }
area_height(a, g) == MinusPlusOne(a.y2, a.y1, g)

\* bool area_contains(const lv_area_t& a, x, y)
\*   { return x >= a.x1 && x <= a.x2 && y >= a.y1 && y <= a.y2; }
area_contains(a, x, y) == x >= a.x1 /\ x <= a.x2 /\ y >= a.y1 /\ y <= a.y2

\* no step of area_width(area_from_size(x, .., w, ..)) overflows
NoOverflow(a, b) ==
    /\ InInt(a + b) /\ InInt(a + b - 1)
    /\ InInt((a + b - 1) - a) /\ InInt((a + b - 1) - a + 1)

\* area_width and area_height of area_from_size(x, y, w, h)
SizeOfAreaFromSize(x, y, w, h) ==
    /\ \E gx \in Int32, gy \in Int32, g \in Int32 :
         LET a == area_from_size(x, y, w, h, gx, gy)
         IN op' = [name |-> "area_from_size", x |-> x, y |-> y, w |-> w, h |-> h, ret |-> a,
                   width |-> area_width(a, g), height |-> area_height(a, g)]
    /\ calls' = <<>>
    /\ UNCHANGED objVars /\ UNCHANGED drawVars /\ UNCHANGED libVars

\* area_contains(area(x1, y1, x2, y2), px, py)
ContainsOfArea(a, px, py) ==
    /\ op' = [name |-> "area_contains", a |-> a, px |-> px, py |-> py,
              ret |-> area_contains(a, px, py)]
    /\ calls' = <<>>
    /\ UNCHANGED objVars /\ UNCHANGED drawVars /\ UNCHANGED libVars

\* the edges tried for area_contains
Edges == -1..1

NextArea ==
    \/ op = NoOp /\ \E x \in Int32, y \in Int32, w \in Int32, h \in Int32 :
          SizeOfAreaFromSize(x, y, w, h)
    \/ op = NoOp /\ \E x1 \in Edges, y1 \in Edges, x2 \in Edges, y2 \in Edges,
                       px \in Int32, py \in Int32 :
          ContainsOfArea(area(x1, y1, x2, y2), px, py)

\* the area helpers, each applied once to arguments of any value
SpecArea == Init /\ [][NextArea]_vars

\* C25: where no step overflows, area_width(area_from_size(x, y, w, h)) = w and
\* area_height(area_from_size(x, y, w, h)) = h; area_contains(a, px, py) is
\* true exactly when a.x1 <= px <= a.x2 and a.y1 <= py <= a.y2.
C25_AreaRoundTrip ==
    /\ op.name = "area_from_size" =>
         /\ NoOverflow(op.x, op.w) => op.width = op.w
         /\ NoOverflow(op.y, op.h) => op.height = op.h
    /\ op.name = "area_contains" =>
         (op.ret <=> (/\ op.a.x1 <= op.px /\ op.px <= op.a.x2
                      /\ op.a.y1 <= op.py /\ op.py <= op.a.y2))

\* an area of negative origin and positive size was built and measured
C25_Witness ==
    /\ op.name = "area_from_size" /\ op.x < 0 /\ op.w = 3 /\ op.h = 2
    /\ NoOverflow(op.x, op.w) /\ NoOverflow(op.y, op.h)
    /\ op.width = 3 /\ op.height = 2 /\ op.ret.x2 = op.x + 2

\* ------------------------------------------------------------------ copies of a view
\* widgets without parent or child, the views created for them, the copies
\* taken of those views, and del() and the getters called on any of them
NextCopies ==
    \/ \E v \in Views : FacadeCreate(v, NULL)
    \/ \E v \in Views, s \in Views : ViewCopy(v, s)
    \/ \E v \in Views : ViewDel(v)
    \/ \E v \in Views : ViewHasFlag(v)
    \/ \E v \in Views : ViewDtor(v)

SpecCopies == Init /\ [][NextCopies]_vars

\* C26: whatever copies are taken of the views of a widget and whichever of
\* them del() is called on, lv_obj_delete is called at most once on the widget
\* and no pointer to an already deleted widget is handed to the engine.
C26_CopiesDeleteOnce ==
    /\ \A w \in Widgets : delCalls[w] <= 1
    /\ fault # "stale"

\* ------------------------------------------------------------------ widget tree
\* what a widget operation saw and returned: the widget before the call in pre
UiOp(n, w, a, r) ==
    [name |-> n, self |-> w, arg |-> a, ret |-> r,
     pre |-> IF w = 0 THEN NoWidget ELSE ui[w]]
UiFrame ==
    /\ UNCHANGED <<obj, at, delCalls, fault, hnd, view, released>>
    /\ UNCHANGED <<dsc, lstate, pending, dispatched, given, areaOut>>
    /\ UNCHANGED <<layer, dbuf, ebuf>>

\* the engine hands out widgets in order of creation
NextUi(w) == ui[w].st = "none" /\ \A k \in Widgets : k < w => ui[k].st # "none"
\* the parents a widget can be created under: the screen (0) or a widget
Parents == {0} \cup {w \in Widgets : ui[w].st = "valid"}

\* engine: the flags a widget of a class has after its constructor ran
DefaultFlags(cls) ==
    CASE cls = "obj" -> {"SCROLLABLE", "CLICKABLE"}
      [] cls = "button" -> {"CLICKABLE"}
      [] cls = "label" -> {"SCROLLABLE"}
\* engine: the text a label shows until one is set
DefaultText(cls) == IF cls = "label" THEN "Text" ELSE NoText

\* engine, lv_obj_create / lv_button_create / lv_label_create (parent): one new
\* widget of the class, appended to the parent's children
lv_obj_class_create(u, w, cls, p) ==
    [u EXCEPT ![w] = [st |-> "valid", cls |-> cls, parent |-> p, text |-> DefaultText(cls),
                      states |-> {}, flags |-> DefaultFlags(cls), styles |-> {}]]

\* the children of p in u; the oldest has the smallest id and is child 0
UiChildren(u, p) == {c \in Widgets : u[c].st = "valid" /\ u[c].parent = p}
\* engine, lv_obj_get_child(p, 0): the first child, NULL (0) if there is none
lv_obj_get_child0(u, p) ==
    IF UiChildren(u, p) = {} THEN 0
    ELSE CHOOSE c \in UiChildren(u, p) : \A d \in UiChildren(u, p) : c <= d
\* engine, lv_obj_check_type(w, &lv_label_class)
lv_obj_check_type(u, w, cls) == u[w].cls = cls
\* engine, lv_label_set_text(label, txt)
lv_label_set_text(u, w, t) == [u EXCEPT ![w] = [@ EXCEPT !.text = t]]
\* engine, lv_obj_add_state / lv_obj_remove_state / lv_obj_has_state
lv_obj_add_state(u, w, s) == [u EXCEPT ![w] = [@ EXCEPT !.states = @ \cup {s}]]
lv_obj_remove_state(u, w, s) == [u EXCEPT ![w] = [@ EXCEPT !.states = @ \ {s}]]
lv_obj_has_state(u, w, s) == s \in u[w].states
\* engine, lv_obj_add_flag / lv_obj_remove_flag
lv_obj_add_flag(u, w, f) == [u EXCEPT ![w] = [@ EXCEPT !.flags = @ \cup {f}]]
lv_obj_remove_flag(u, w, f) == [u EXCEPT ![w] = [@ EXCEPT !.flags = @ \ {f}]]

\* ------------------------------------------------------------------ Button
IsButton(b) == ui[b].st = "valid" /\ ui[b].cls = "button"

\* static Button create(lv_obj_t* parent) { return Button(wrap, lv_button_create(parent)); }
Button_create(w, p) ==
    /\ NextUi(w) /\ p \in Parents
    /\ ui' = lv_obj_class_create(ui, w, "button", p)
    /\ op' = UiOp("Button::create", 0, p, w)
    /\ calls' = <<Call("lv_button_create", p)>>
    /\ UNCHANGED <<style, srec>> /\ UiFrame

\* a text() that sets the text of the label the button already has
Button_text_Reuse(b, t) ==
    /\ IsButton(b)
    /\ LET child == lv_obj_get_child0(ui, b) IN
       IF child # 0
       THEN /\ ui' = lv_label_set_text(ui, child, t)
            /\ calls' = <<Call("lv_label_set_text", child)>>
       ELSE \E w \in Widgets :
            /\ NextUi(w)
            /\ ui' = lv_label_set_text(lv_obj_class_create(ui, w, "label", b), w, t)
            /\ calls' = <<Call("lv_label_create", b), Call("lv_label_set_text", w),
                          Call("lv_obj_center", w)>>
    /\ op' = UiOp("text", b, t, b)
    /\ UNCHANGED <<style, srec>> /\ UiFrame

\* Button& text(const char* txt) {
\*   lv_obj_t* lbl = lv_label_create(m_obj); lv_label_set_text(lbl, txt);
\*   lv_obj_center(lbl); return *this; }
Button_text(b, t) ==
    /\ IsButton(b)
    /\ \E w \in Widgets :
       /\ NextUi(w)
       /\ ui' = lv_label_set_text(lv_obj_class_create(ui, w, "label", b), w, t)
       /\ calls' = <<Call("lv_label_create", b), Call("lv_label_set_text", w),
                     Call("lv_obj_center", w)>>
    /\ op' = UiOp("text", b, t, b)
    /\ UNCHANGED <<style, srec>> /\ UiFrame

\* Button& set_text(const char* txt) {
\*   lv_obj_t* child = lv_obj_get_child(m_obj, 0);
\*   if (child && lv_obj_check_type(child, &lv_label_class)) lv_label_set_text(child, txt);
\*   return *this; }
Button_set_text(b, t) ==
    /\ IsButton(b)
    /\ LET child == lv_obj_get_child0(ui, b) IN
       IF child = 0
       THEN UNCHANGED ui /\ calls' = <<Call("lv_obj_get_child", b)>>
       ELSE IF lv_obj_check_type(ui, child, "label")
       THEN /\ ui' = lv_label_set_text(ui, child, t)
            /\ calls' = <<Call("lv_obj_get_child", b), Call("lv_obj_check_type", child),
                          Call("lv_label_set_text", child)>>
       ELSE /\ UNCHANGED ui
            /\ calls' = <<Call("lv_obj_get_child", b), Call("lv_obj_check_type", child)>>
    /\ op' = UiOp("set_text", b, t, b)
    /\ UNCHANGED <<style, srec>> /\ UiFrame

\* [[nodiscard]] bool checked() const { return lv_obj_has_state(m_obj, LV_STATE_CHECKED); }
Button_is_checked(b) ==
    /\ IsButton(b)
    /\ op' = UiOp("checked()", b, 0, lv_obj_has_state(ui, b, "CHECKED"))
    /\ calls' = <<Call("lv_obj_has_state", b)>>
    /\ UNCHANGED <<ui, style, srec>> /\ UiFrame

\* Button& checked(bool v) {
\*   if (v) lv_obj_add_state(m_obj, LV_STATE_CHECKED);
\*   else lv_obj_remove_state(m_obj, LV_STATE_CHECKED); return *this; }
Button_checked(b, v) ==
    /\ IsButton(b)
    /\ IF v THEN /\ ui' = lv_obj_add_state(ui, b, "CHECKED")
                 /\ calls' = <<Call("lv_obj_add_state", b)>>
            ELSE /\ ui' = lv_obj_remove_state(ui, b, "CHECKED")
                 /\ calls' = <<Call("lv_obj_remove_state", b)>>
    /\ op' = UiOp("checked", b, v, b)
    /\ UNCHANGED <<style, srec>> /\ UiFrame

\* a toggle() that only ever checks the button
Button_toggle_AddOnly(b) ==
    /\ IsButton(b)
    /\ ui' = lv_obj_add_state(ui, b, "CHECKED")
    /\ calls' = <<Call("lv_obj_add_state", b)>>
    /\ op' = UiOp("toggle", b, 0, b)
    /\ UNCHANGED <<style, srec>> /\ UiFrame

\* Button& toggle() {
\*   if (lv_obj_has_state(m_obj, LV_STATE_CHECKED)) lv_obj_remove_state(m_obj, LV_STATE_CHECKED);
\*   else lv_obj_add_state(m_obj, LV_STATE_CHECKED); return *this; }
Button_toggle(b) ==
    /\ IsButton(b)
    /\ IF lv_obj_has_state(ui, b, "CHECKED")
       THEN /\ ui' = lv_obj_remove_state(ui, b, "CHECKED")
            /\ calls' = <<Call("lv_obj_has_state", b), Call("lv_obj_remove_state", b)>>
       ELSE /\ ui' = lv_obj_add_state(ui, b, "CHECKED")
            /\ calls' = <<Call("lv_obj_has_state", b), Call("lv_obj_add_state", b)>>
    /\ op' = UiOp("toggle", b, 0, b)
    /\ UNCHANGED <<style, srec>> /\ UiFrame

\* Button& disabled(bool v = true) {
\*   if (v) lv_obj_add_state(m_obj, LV_STATE_DISABLED);
\*   else lv_obj_remove_state(m_obj, LV_STATE_DISABLED); return *this; }
Button_disabled(b, v) ==
    /\ IsButton(b)
    /\ IF v THEN /\ ui' = lv_obj_add_state(ui, b, "DISABLED")
                 /\ calls' = <<Call("lv_obj_add_state", b)>>
            ELSE /\ ui' = lv_obj_remove_state(ui, b, "DISABLED")
                 /\ calls' = <<Call("lv_obj_remove_state", b)>>
    /\ op' = UiOp("disabled", b, v, b)
    /\ UNCHANGED <<style, srec>> /\ UiFrame

\* Button& enabled(bool v = true) { return disabled(!v); }
\* the body of disabled runs with its parameter bound to !v
Button_enabled(b, v) ==
    /\ IsButton(b)
    /\ IF ~v THEN /\ ui' = lv_obj_add_state(ui, b, "DISABLED")
                  /\ calls' = <<Call("lv_obj_add_state", b)>>
             ELSE /\ ui' = lv_obj_remove_state(ui, b, "DISABLED")
                  /\ calls' = <<Call("lv_obj_remove_state", b)>>
    /\ op' = UiOp("enabled", b, v, b)
    /\ UNCHANGED <<style, srec>> /\ UiFrame

NextButton ==
    \/ \E w \in Widgets, p \in Widgets \cup {0} : Button_create(w, p)
    \/ \E b \in Widgets, t \in Texts : Button_text(b, t)
    \/ \E b \in Widgets, t \in Texts : Button_set_text(b, t)
    \/ \E b \in Widgets : Button_is_checked(b)
    \/ \E b \in Widgets, v \in BOOLEAN : Button_checked(b, v)
    \/ \E b \in Widgets : Button_toggle(b)
    \/ \E b \in Widgets, v \in BOOLEAN : Button_disabled(b, v)
    \/ \E b \in Widgets, v \in BOOLEAN : Button_enabled(b, v)

SpecButton == Init /\ [][NextButton]_vars

\* the label children of a widget
LabelChildren(u, p) == {c \in UiChildren(u, p) : u[c].cls = "label"}
\* u2 is u1 but for the text of widget c, which is t
OnlyTextSet(u1, u2, c, t) == u2 = [u1 EXCEPT ![c] = [@ EXCEPT !.text = t]]

Inverted(s) == IF "CHECKED" \in s THEN s \ {"CHECKED"} ELSE s \cup {"CHECKED"}
\* u2 is u1 but for the states of widget b, which are s
OnlyStates(u1, u2, b, s) == u2 = [u1 EXCEPT ![b] = [@ EXCEPT !.states = s]]

\* C24: toggle() inverts CHECKED and changes no other state bit nor any other
\* widget, so checked() is negated and a second toggle() restores the states
\* the button had before the first; checked(v) makes checked() return v;
\* enabled(v) does to the button what disabled(!v) does.
C24_ToggleInverts ==
    [][/\ op'.name = "toggle" =>
            /\ OnlyStates(ui, ui', op'.self, Inverted(ui[op'.self].states))
            /\ lv_obj_has_state(ui', op'.self, "CHECKED") = ~lv_obj_has_state(ui, op'.self, "CHECKED")
            /\ (op.name = "toggle" /\ op.self = op'.self) =>
                   ui'[op'.self].states = op.pre.states
       /\ op'.name = "checked" =>
            /\ OnlyStates(ui, ui', op'.self,
                   IF op'.arg THEN ui[op'.self].states \cup {"CHECKED"}
                   ELSE ui[op'.self].states \ {"CHECKED"})
            /\ lv_obj_has_state(ui', op'.self, "CHECKED") = op'.arg
       /\ op'.name = "checked()" =>
            /\ ui' = ui
            /\ op'.ret = ("CHECKED" \in ui[op'.self].states)
       /\ op'.name = "disabled" =>
            OnlyStates(ui, ui', op'.self,
                   IF op'.arg THEN ui[op'.self].states \cup {"DISABLED"}
                   ELSE ui[op'.self].states \ {"DISABLED"})
       /\ op'.name = "enabled" =>
            OnlyStates(ui, ui', op'.self,
                   IF ~op'.arg THEN ui[op'.self].states \cup {"DISABLED"}
                   ELSE ui[op'.self].states \ {"DISABLED"})
      ]_vars

\* a disabled, checked button was toggled and is now disabled and unchecked
C24_Witness ==
    /\ op.name = "toggle"
    /\ op.pre.states = {"CHECKED", "DISABLED"}
    /\ ui[op.self].states = {"DISABLED"}

\* ------------------------------------------------------------------ Box
\* constexpr Box() noexcept : ObjectView(nullptr) {}
Box_default ==
    /\ op' = UiOp("Box()", 0, 0, 0)
    /\ calls' = <<>>
    /\ UNCHANGED <<ui, style, srec>> /\ UiFrame

\* constexpr Box(wrap_t, lv_obj_t* obj) noexcept : ObjectView(obj) {}
Box_wrap(o) ==
    /\ o \in Parents
    /\ op' = UiOp("Box(wrap)", 0, o, o)
    /\ calls' = <<>>
    /\ UNCHANGED <<ui, style, srec>> /\ UiFrame

\* a create() that leaves the new object as the engine made it
Box_create_AsCreated(w, p) ==
    /\ NextUi(w) /\ p \in Parents
    /\ ui' = lv_obj_class_create(ui, w, "obj", p)
    /\ op' = UiOp("Box::create", 0, p, w)
    /\ calls' = <<Call("lv_obj_create", p)>>
    /\ UNCHANGED <<style, srec>> /\ UiFrame

\* static Box create(lv_obj_t* parent) {
\*   Box box; box.m_obj = lv_obj_create(parent);
\*   lv_obj_remove_flag(box.m_obj, LV_OBJ_FLAG_SCROLLABLE); return box; }
Box_create(w, p) ==
    /\ NextUi(w) /\ p \in Parents
    /\ ui' = lv_obj_remove_flag(lv_obj_class_create(ui, w, "obj", p), w, "SCROLLABLE")
    /\ op' = UiOp("Box::create", 0, p, w)
    /\ calls' = <<Call("lv_obj_create", p), Call("lv_obj_remove_flag", w)>>
    /\ UNCHANGED <<style, srec>> /\ UiFrame

\* Box& scrollable(bool v = true) {
\*   if (v) lv_obj_add_flag(m_obj, LV_OBJ_FLAG_SCROLLABLE);
\*   else lv_obj_remove_flag(m_obj, LV_OBJ_FLAG_SCROLLABLE); return *this; }
Box_scrollable(b, v) ==
    /\ ui[b].st = "valid"
    /\ IF v THEN /\ ui' = lv_obj_add_flag(ui, b, "SCROLLABLE")
                 /\ calls' = <<Call("lv_obj_add_flag", b)>>
            ELSE /\ ui' = lv_obj_remove_flag(ui, b, "SCROLLABLE")
                 /\ calls' = <<Call("lv_obj_remove_flag", b)>>
    /\ op' = UiOp("scrollable", b, v, b)
    /\ UNCHANGED <<style, srec>> /\ UiFrame

\* Derived& clickable(bool v = true) {
\*   if (v) lv_obj_add_flag(obj(), LV_OBJ_FLAG_CLICKABLE);
\*   else lv_obj_remove_flag(obj(), LV_OBJ_FLAG_CLICKABLE); return *static_cast<Derived*>(this); }
Mixin_clickable(b, v) ==
    /\ ui[b].st = "valid"
    /\ IF v THEN /\ ui' = lv_obj_add_flag(ui, b, "CLICKABLE")
                 /\ calls' = <<Call("lv_obj_add_flag", b)>>
            ELSE /\ ui' = lv_obj_remove_flag(ui, b, "CLICKABLE")
                 /\ calls' = <<Call("lv_obj_remove_flag", b)>>
    /\ op' = UiOp("clickable", b, v, b)
    /\ UNCHANGED <<style, srec>> /\ UiFrame

NextBox ==
    \/ Box_default
    \/ \E o \in Widgets \cup {0} : Box_wrap(o)
    \/ \E w \in Widgets, p \in Widgets \cup {0} : Box_create(w, p)
    \/ \E w \in Widgets, p \in Widgets \cup {0} : Button_create(w, p)
    \/ \E b \in Widgets, v \in BOOLEAN : Box_scrollable(b, v)
    \/ \E b \in Widgets, v \in BOOLEAN : Mixin_clickable(b, v)

SpecBox == Init /\ [][NextBox]_vars

\* the engine calls of the last operation that create a widget
CreateCalls(cs) ==
    {i \in 1..Len(cs) : cs[i].fn \in {"lv_obj_create", "lv_button_create", "lv_label_create"}}

\* C30: Box::create(parent) makes exactly one engine object, under parent,
\* and returns a Box on it whose SCROLLABLE flag is cleared; scrollable(true)
\* sets that flag and scrollable(false) clears it, leaving every other flag and
\* every other widget alone; Box(wrap, obj) and Box() call nothing in the
\* engine, create no object and change no flag.
C30_BoxCreateAndScrollable ==
    [][/\ op'.name = "Box::create" =>
            /\ Cardinality(CreateCalls(calls')) = 1
            /\ calls'[1] = Call("lv_obj_create", op'.arg)
            /\ op'.ret # 0 /\ ui[op'.ret].st = "none"
            /\ {w \in Widgets : ui'[w].st = "valid"}
                   = {w \in Widgets : ui[w].st = "valid"} \cup {op'.ret}
            /\ ui' = [ui EXCEPT ![op'.ret] = ui'[op'.ret]]
            /\ ui'[op'.ret].parent = op'.arg
            /\ "SCROLLABLE" \notin ui'[op'.ret].flags
       /\ op'.name = "scrollable" =>
            /\ ui' = [ui EXCEPT ![op'.self] = [@ EXCEPT !.flags =
                         IF op'.arg THEN @ \cup {"SCROLLABLE"} ELSE @ \ {"SCROLLABLE"}]]
            /\ ("SCROLLABLE" \in ui'[op'.self].flags) = op'.arg
            /\ ui'[op'.self].flags \ {"SCROLLABLE"} = ui[op'.self].flags \ {"SCROLLABLE"}
       /\ op'.name \in {"Box()", "Box(wrap)"} =>
            /\ ui' = ui
            /\ calls' = <<>>
            /\ op'.ret = op'.arg
      ]_vars

\* a box made by create() was made scrollable, and scrollable(false) has just
\* cleared the flag again while the box stayed clickable
C30_Witness ==
    /\ op.name = "scrollable" /\ op.arg = FALSE
    /\ op.pre.cls = "obj" /\ "SCROLLABLE" \in op.pre.flags
    /\ ui[op.self].flags = {"CLICKABLE"}

\* ------------------------------------------------------------------ styles added to widgets
\* engine, lv_obj_add_style(obj, style, selector): the widget keeps the
\* pointer it is given (here: which Style object's m_style it points into)
lv_obj_add_style(u, w, i) == [u EXCEPT ![w] = [@ EXCEPT !.styles = @ \cup {i}]]
\* engine, lv_obj_remove_style(obj, style, selector)
lv_obj_remove_style(u, w, i) == [u EXCEPT ![w] = [@ EXCEPT !.styles = @ \ {i}]]

\* Derived& add_style(lv_style_t* style, lv_style_selector_t selector = 0) {
\*   lv_obj_add_style(obj(), style, selector); return *static_cast<Derived*>(this); }
\* called with a Style, which converts to &m_style
Mixin_add_style(w, i) ==
    /\ ui[w].st = "valid" /\ style[i].st = "live"
    /\ ui' = lv_obj_add_style(ui, w, i)
    /\ op' = UiOp("add_style", w, i, w)
    /\ calls' = <<Call("lv_obj_add_style", w)>>
    /\ UNCHANGED <<style, srec>> /\ UiFrame

\* Derived& remove_style(lv_style_t* style, lv_style_selector_t selector = 0) {
\*   lv_obj_remove_style(obj(), style, selector); return *static_cast<Derived*>(this); }
Mixin_remove_style(w, i) ==
    /\ ui[w].st = "valid" /\ style[i].st = "live"
    /\ ui' = lv_obj_remove_style(ui, w, i)
    /\ op' = UiOp("remove_style", w, i, w)
    /\ calls' = <<Call("lv_obj_remove_style", w)>>
    /\ UNCHANGED <<style, srec>> /\ UiFrame

NextShare ==
    \/ \E w \in Widgets : Box_create(w, 0)
    \/ \E i \in Styles : Style_ctor(i)
    \/ \E i \in Styles, v \in Bits : Style_set(i, "bg_color", v)
    \/ \E w \in Widgets, i \in Styles : Mixin_add_style(w, i)
    \/ \E w \in Widgets, i \in Styles : Mixin_remove_style(w, i)
    \/ \E d \in Styles, s \in Styles : Style_move_ctor(d, s)
    \/ \E d \in Styles, s \in Styles : Style_move_assign(d, s)
    \/ \E i \in Styles : Style_dtor(i)

SpecShare == Init /\ [][NextShare]_vars

\* the styles some widget was given a pointer to
AddedStyles(u) == UNION {u[w].styles : w \in {x \in Widgets : u[x].st = "valid"}}

\* C29: a move out of or into a Style leaves every style pointer that widgets
\* hold resolving the same property values as before the move, and pointing
\* to a live Style whose property record is not released.
C29_MoveKeepsAddedStyles ==
    [][op'.name \in StyleMoves =>
          \A i \in AddedStyles(ui) :
            /\ style'[i].st = "live"
            /\ PropsOf(style', srec', i) = PropsOf(style, srec, i)
            /\ style'[i].rec # 0 => srec'[style'[i].rec].st = "live"
      ]_vars
====
